---- MODULE Spec2Model ----
(***************************************************************************)
(* The call-budget tracker and the retry orchestrator of                   *)
(* modules/ai_client.py as a state machine over a simulated clock.         *)
(*                                                                         *)
(* Time is counted in whole seconds.  Every time.time() of the source is   *)
(* a read of the variable now; the clock moves in ClockAdvance only, so    *)
(* two reads in one function may return different values, and a            *)
(* time.sleep(d) returns at the first step taken with now >= start + d.    *)
(* Each worker is one thread executing generate_content or                 *)
(* reset_rate_limiter; pc is its position in the source.                   *)
(*                                                                         *)
(* The evaluation engine follows: determine_candidate_tier and             *)
(* rank_candidates of modules/evaluator.py, normalize_weights of           *)
(* modules/rubrics_generator.py, and the way of a rubric from its          *)
(* generation to its use.  Each has its own variables and its own          *)
(* specification, in which the other parts stand still.                    *)
(***************************************************************************)
EXTENDS Integers, Sequences, FiniteSets, TLC

\* ---------------------------------------------------------------- settings
\* ai_client.py, lines 24-27
MIN_DELAY_BETWEEN_CALLS == 4
MAX_RETRIES == 4
INITIAL_RETRY_DELAY == 15
CALLS_PER_MINUTE_LIMIT == 20

\* the literals of the source
WINDOW_SECONDS == 60
COOLDOWN_EXTRA == 2
JITTER_LOW == 2
JITTER_HIGH == 8
TIMEOUT_BASE_DELAY == 10
BACKOFF_BASE == 2

\* ------------------------------------------------------------------ bounds
\* a second configuration of the settings block, under which the per-minute
\* limit can be reached inside one window
SmallLimit == 1
SmallDelay == 1
\* the clock reading when the module is imported
StartTime == 100
\* the seconds right after the start at which the clock may stand
Horizon == 1
\* a run is either MaxInvoke calls of generate_content in which at most
\* FewFailures external calls fail, or one call of generate_content in which
\* at most MaxFailures external calls fail
MaxInvoke == 2
FewFailures == 1
MaxFailures == 4
\* threads of the concurrent specification
ConcWorkers == 2

Workers == 1..ConcWorkers

Settings ==
  { [limit |-> CALLS_PER_MINUTE_LIMIT, delay |-> MIN_DELAY_BETWEEN_CALLS],
    [limit |-> SmallLimit, delay |-> SmallDelay] }

\* what an external call can give: a response, or an exception whose text
\* holds these words
OK == {"ok"}
ErrorTexts == { {"429"}, {"timeout"}, {"limit", "timeout"}, {"unauthorized"} }
Outcomes == {OK} \cup ErrorTexts

RetryArgs == {0, 1, MAX_RETRIES}

Budgets ==
  { [invokes |-> MaxInvoke, failures |-> FewFailures],
    [invokes |-> 1, failures |-> MaxFailures] }

\* line 124: random.uniform(2, 8), at its two ends
Jitters == {JITTER_LOW, JITTER_HIGH}

NoResult == [kind |-> "none", attempts |-> 0, text |-> {}]

VARIABLES
  now,                    \* the clock: what time.time() returns
  _last_api_call_time,    \* module globals, lines 19-21
  _api_call_count,
  _minute_start_time,
  callsPerMinuteLimit,    \* the settings in force
  minDelayBetweenCalls,
  workers,                \* the threads that run
  retryArgs,              \* the values callers pass for max_retries
  pc,                     \* per worker: position in the source
  max_retries,            \* per worker: argument of generate_content
  attempt,                \* per worker: loop variable, 0-based
  wait_time,              \* per worker: local wait_time of the running sleep
  wake,                   \* per worker: when the running sleep may return
  loaded,                 \* per worker: _api_call_count as read by "+= 1"
  err,                    \* per worker: outcome of the last external call
  result,                 \* per worker: what the last generate_content gave
  ncalls,                 \* history: external calls of the current invoke
  nacq,                   \* history: acquires of the current invoke
  grants,                 \* history: the grants, in order
  resetSince,             \* history: reset_rate_limiter ran since last grant
  counted,                \* history: grants since the counter was last zeroed
  okcalls,                \* history: calls of the invoke up to its first success
  sleptAt,                \* history: the clock when the last sleep began
  invokesLeft,            \* environment: calls of generate_content to come
  failuresLeft            \* environment: external calls that may still fail

client == << now, _last_api_call_time, _api_call_count, _minute_start_time,
             callsPerMinuteLimit, minDelayBetweenCalls, workers, retryArgs,
             pc,
             max_retries, attempt, wait_time, wake, loaded, err, result,
             ncalls, nacq, grants, resetSince, counted, okcalls,
             sleptAt, invokesLeft, failuresLeft >>

\* ------------------------------------------------- the evaluation engine
\* determine_candidate_tier, evaluator.py lines 184-229
VARIABLES
  tier_pc,                \* position in determine_candidate_tier
  overall_score,          \* its arguments
  scores,
  ai_reasoning,
  candidate_tier,         \* its local, and what it returns
  base_tier,              \* history: candidate_tier after line 198
  guarded_tier            \* history: candidate_tier after line 209

tiering == << tier_pc, overall_score, scores, ai_reasoning, candidate_tier,
              base_tier, guarded_tier >>

\* rank_candidates, evaluator.py lines 488-499
VARIABLES
  rank_pc,                \* position in rank_candidates
  result_objects,         \* the result dicts, by reference
  evaluation_results,     \* its argument: a list of references
  sorted_results,         \* its local, and what it returns
  rank,                   \* its loop variable
  given_results           \* history: the dicts when the function was called

ranking == << rank_pc, result_objects, evaluation_results, sorted_results,
              rank, given_results >>

\* normalize_weights, rubrics_generator.py lines 157-173
VARIABLES
  norm_pc,                \* position in a run of normalize_weights
  weights,                \* its argument
  normalized,             \* what it returns
  renormalized            \* what it returns for what it returned

normalizing == << norm_pc, weights, normalized, renormalized >>

\* the rubric of a job description, from its generation to its use
VARIABLES
  rubric_pc,              \* where the rubric is on its way
  ai_response,            \* history: what the service answered
  rubrics,                \* the rubric stored for the job description
  origin,                 \* history: how the stored weights came about
  applied                 \* the weights the overall score was computed with

rubric == << rubric_pc, ai_response, rubrics, origin, applied >>

\* evaluate_candidate_with_reasoning, evaluator.py lines 11-80
VARIABLES
  eval_pc,                \* position in evaluate_candidate_with_reasoning
  jd_data,                \* its arguments
  resume_data,
  rubrics_config,
  individual_scores,      \* its local scores, as far as it is filled
  eval_overall,           \* its local overall_score, not rounded
  eval_reasoning,         \* its local ai_reasoning
  eval_tier,              \* its local candidate_tier
  strengths,              \* what extract_strengths_weaknesses returned
  weaknesses,
  eval_result,            \* the dict it returns
  caught,                 \* history: the scorers that caught an error
  reasoning_source        \* history: who wrote the rationale

evaluating == << eval_pc, jd_data, resume_data, rubrics_config,
                 individual_scores, eval_overall, eval_reasoning, eval_tier,
                 strengths, weaknesses, eval_result, caught,
                 reasoning_source >>

\* parse_json_response, ai_client.py lines 181-200
VARIABLES
  parse_pc,               \* position in parse_json_response
  text_arg,               \* its argument text
  cleaned_text,           \* its local
  parsed,                 \* what it returns or raises
  stages                  \* history: the parsing stages run, in order

parsing == << parse_pc, text_arg, cleaned_text, parsed, stages >>

\* the matching loop, app.py lines 586-650
VARIABLES
  batch_pc,               \* position in the handler of Start Matching
  resume_file_paths,      \* the resumes, each with what will happen to it
  idx,                    \* the loop variable
  results,                \* the list of results
  ranked_results,         \* what rank_candidates returned
  visited                 \* history: the resumes the loop has reached

batching == << batch_pc, resume_file_paths, idx, results, ranked_results,
               visited >>

engine == << evaluating, parsing, batching >>

evaluation == << tiering, ranking, normalizing, rubric, engine >>

vars == << client, evaluation >>

tracker == << _last_api_call_time, _api_call_count, _minute_start_time >>
config == << callsPerMinuteLimit, minDelayBetweenCalls, workers, retryArgs >>
frame == << max_retries, attempt, loaded, err, result >>
sleep == << wait_time, wake, sleptAt >>
history == << ncalls, nacq, grants, resetSince, counted, okcalls >>
budget == << invokesLeft, failuresLeft >>

RECURSIVE Pow(_, _)
Pow(b, n) == IF n = 0 THEN 1 ELSE b * Pow(b, n - 1)

\* line 121: the keywords of any(keyword in error_msg for keyword in [...])
RATE_KEYWORDS == {"rate", "limit", "429", "quota"}
\* the status code as the only sign of a rate limit
IsRateLimitErrorByCode(text) == "429" \in text

IsRateLimitError(text) == text \cap RATE_KEYWORDS # {}
\* line 142
IsTimeoutError(text) == "timeout" \in text

\* a linear backoff in place of the exponential one
BackoffDelayLinear(a) == INITIAL_RETRY_DELAY * (a + 1)

\* line 124, without the jitter
BackoffDelay(a) == INITIAL_RETRY_DELAY * Pow(BACKOFF_BASE, a)
\* the 0-based loop variable in place of the attempt number
TimeoutDelayZeroBased(a) == TIMEOUT_BASE_DELAY * a

\* line 144
TimeoutDelay(a) == TIMEOUT_BASE_DELAY * (a + 1)
\* giving up one attempt early
AttemptsRemainEarly(a, m) == a < m - 2

\* lines 122 and 143
AttemptsRemain(a, m) == a < m - 1

\* ------------------------------------------------ values of the evaluation
\* the labels of determine_candidate_tier, worst first
TierOrder == << "VERY_LOW", "LOW", "MODERATE", "BEST", "TOP" >>
Tiers == {TierOrder[i] : i \in 1..Len(TierOrder)}
NoTier == "unset"

\* a rationale is None, or a string: the empty one, or a text, which is
\* modelled by the phrases that occur in its lower-cased form
NoRationale == [kind |-> "none", phrases |-> {}]

\* determine_candidate_tier is not running
TierIdle ==
  /\ tier_pc = "idle"
  /\ overall_score = 0
  /\ scores = << >>
  /\ ai_reasoning = NoRationale
  /\ candidate_tier = NoTier
  /\ base_tier = NoTier
  /\ guarded_tier = NoTier

\* rank_candidates is not running
RankIdle ==
  /\ rank_pc = "idle"
  /\ result_objects = << >>
  /\ evaluation_results = << >>
  /\ sorted_results = << >>
  /\ rank = 0
  /\ given_results = << >>

\* normalize_weights is not running
NormalizeIdle ==
  /\ norm_pc = "idle"
  /\ weights = << >>
  /\ normalized = << >>
  /\ renormalized = << >>

\* db.get_rubrics returns None
NoRubrics == [kind |-> "none", weights |-> << >>]
NoResponse == [kind |-> "none", weights |-> << >>]

\* no rubric is on its way
RubricIdle ==
  /\ rubric_pc = "idle"
  /\ ai_response = NoResponse
  /\ rubrics = NoRubrics
  /\ origin = "none"
  /\ applied = << >>

\* evaluate_candidate_with_reasoning is not running
NoData == [kind |-> "none"]
EvaluateIdle ==
  /\ eval_pc = "idle"
  /\ jd_data = NoData
  /\ resume_data = NoData
  /\ rubrics_config = NoData
  /\ individual_scores = << >>
  /\ eval_overall = 0
  /\ eval_reasoning = NoRationale
  /\ eval_tier = NoTier
  /\ strengths = << >>
  /\ weaknesses = << >>
  /\ eval_result = NoData
  /\ caught = {}
  /\ reasoning_source = "none"

\* parse_json_response is not running
NoText == [kind |-> "unset", tokens |-> << >>]
ParseIdle ==
  /\ parse_pc = "idle"
  /\ text_arg = NoText
  /\ cleaned_text = NoText
  /\ parsed = "unset"
  /\ stages = << >>

\* no matching runs
BatchIdle ==
  /\ batch_pc = "idle"
  /\ resume_file_paths = << >>
  /\ idx = 0
  /\ results = << >>
  /\ ranked_results = << >>
  /\ visited = {}

EngineIdle == EvaluateIdle /\ ParseIdle /\ BatchIdle

EvaluationIdle ==
  TierIdle /\ RankIdle /\ NormalizeIdle /\ RubricIdle /\ EngineIdle

\* ------------------------------------------------------------------- Init
InitCommon ==
  /\ now = StartTime
  /\ _last_api_call_time = 0
  /\ _api_call_count = 0
  /\ _minute_start_time = StartTime
  /\ pc = [w \in Workers |-> "idle"]
  /\ max_retries = [w \in Workers |-> MAX_RETRIES]
  /\ attempt = [w \in Workers |-> 0]
  /\ wait_time = [w \in Workers |-> 0]
  /\ wake = [w \in Workers |-> 0]
  /\ loaded = [w \in Workers |-> 0]
  /\ err = [w \in Workers |-> OK]
  /\ result = [w \in Workers |-> NoResult]
  /\ ncalls = [w \in Workers |-> 0]
  /\ nacq = [w \in Workers |-> 0]
  /\ grants = << >>
  /\ resetSince = FALSE
  /\ counted = 0
  /\ okcalls = [w \in Workers |-> 0]
  /\ sleptAt = [w \in Workers |-> 0]

\* no thread runs the client
ClientIdle ==
  /\ InitCommon
  /\ workers = {}
  /\ retryArgs = {}
  /\ callsPerMinuteLimit = CALLS_PER_MINUTE_LIMIT
  /\ minDelayBetweenCalls = MIN_DELAY_BETWEEN_CALLS
  /\ invokesLeft = 0
  /\ failuresLeft = 0

\* one worker, as the application runs it
Init ==
  /\ InitCommon
  /\ EvaluationIdle
  /\ workers = {1}
  /\ retryArgs = RetryArgs
  /\ \E s \in Settings :
       /\ callsPerMinuteLimit = s.limit
       /\ minDelayBetweenCalls = s.delay
  /\ \E b \in Budgets :
       /\ invokesLeft = b.invokes
       /\ failuresLeft = b.failures

\* ------------------------------------------------------------ the clock
Sleeping(w) == pc[w] \in {"cooldown", "delay_sleep", "backoff", "timeout_sleep"}

\* Where the clock may stand next: one of the first seconds after the
\* start, the last second of the first window, the end of that window, or
\* the end of a running sleep.
ClockInstants ==
  {StartTime + d : d \in 1..Horizon}
    \cup {StartTime + WINDOW_SECONDS - 1, StartTime + WINDOW_SECONDS}

ClockTargets ==
  ClockInstants \cup {wake[w] : w \in {x \in workers : Sleeping(x)}}

ClockAdvance ==
  /\ \E t \in ClockTargets :
       /\ t > now
       /\ now' = t
  /\ UNCHANGED evaluation
  /\ UNCHANGED << tracker, config, pc, frame, sleep, history, budget >>

\* time.sleep(d) is entered
StartSleep(w, d) ==
  /\ wait_time' = [wait_time EXCEPT ![w] = d]
  /\ wake' = [wake EXCEPT ![w] = now + d]
  /\ sleptAt' = [sleptAt EXCEPT ![w] = now]

\* time.sleep(d) may return
SleepOver(w) == now >= wake[w]

\* time.sleep has returned: its argument is dead
SleepReturns(w) ==
  /\ wait_time' = [wait_time EXCEPT ![w] = 0]
  /\ wake' = [wake EXCEPT ![w] = 0]
  /\ UNCHANGED sleptAt

\* ------------------------------------------------------ generate_content
\* line 77: generate_content(prompt, max_retries) is called
Invoke(w) ==
  /\ pc[w] = "idle"
  /\ invokesLeft > 0
  /\ invokesLeft' = invokesLeft - 1
  /\ \E m \in retryArgs : max_retries' = [max_retries EXCEPT ![w] = m]
  /\ pc' = [pc EXCEPT ![w] = "reset_minute"]
  /\ UNCHANGED evaluation
  /\ UNCHANGED << now, tracker, config, attempt, loaded, err, result, sleep,
                  history, failuresLeft >>

\* line 35
WindowElapsed(t, start) == t - start >= WINDOW_SECONDS

\* _reset_minute_counter, lines 30-38
ResetMinuteCounter(w) ==
  /\ pc[w] = "reset_minute"
  /\ IF WindowElapsed(now, _minute_start_time)
       THEN /\ _api_call_count' = 0
            /\ _minute_start_time' = now
            /\ counted' = 0
       ELSE UNCHANGED << _api_call_count, _minute_start_time, counted >>
  /\ pc' = [pc EXCEPT ![w] = "check_limit"]
  /\ UNCHANGED evaluation
  /\ UNCHANGED << now, _last_api_call_time, config, frame, sleep, ncalls,
                  nacq, grants, resetSince, okcalls, budget >>

\* line 50
LimitReached(count, limit) == count >= limit

\* _wait_for_rate_limit, lines 50-56: the per-minute check, up to the sleep
CheckLimit(w) ==
  /\ pc[w] = "check_limit"
  /\ LET time_elapsed == now - _minute_start_time
         time_remaining == WINDOW_SECONDS - time_elapsed
     IN IF LimitReached(_api_call_count, callsPerMinuteLimit)
           /\ time_remaining > 0
          THEN /\ StartSleep(w, time_remaining + COOLDOWN_EXTRA)
               /\ pc' = [pc EXCEPT ![w] = "cooldown"]
          ELSE /\ pc' = [pc EXCEPT ![w] = "min_delay"]
               /\ UNCHANGED sleep
  /\ UNCHANGED evaluation
  /\ UNCHANGED << now, tracker, config, frame, history, budget >>

\* lines 56-58: the sleep returns and the window is restarted
Cooldown(w) ==
  /\ pc[w] = "cooldown"
  /\ SleepOver(w)
  /\ SleepReturns(w)
  /\ _api_call_count' = 0
  /\ _minute_start_time' = now
  /\ counted' = 0
  /\ pc' = [pc EXCEPT ![w] = "min_delay"]
  /\ UNCHANGED evaluation
  /\ UNCHANGED << now, _last_api_call_time, config, frame, ncalls, nacq,
                  grants, resetSince, okcalls, budget >>

\* the minimum delay taken one second short
MustWaitShort(since, delay) == since < delay - 1

\* line 64
MustWait(since, delay) == since < delay

\* lines 61-68: the minimum delay between calls, up to the sleep
MinDelay(w) ==
  /\ pc[w] = "min_delay"
  /\ LET time_since_last_call == now - _last_api_call_time
     IN IF MustWait(time_since_last_call, minDelayBetweenCalls)
          THEN /\ StartSleep(w, minDelayBetweenCalls - time_since_last_call)
               /\ pc' = [pc EXCEPT ![w] = "delay_sleep"]
          ELSE /\ pc' = [pc EXCEPT ![w] = "record"]
               /\ UNCHANGED sleep
  /\ UNCHANGED evaluation
  /\ UNCHANGED << now, tracker, config, frame, history, budget >>

\* line 68: the sleep returns
DelaySleep(w) ==
  /\ pc[w] = "delay_sleep"
  /\ SleepOver(w)
  /\ SleepReturns(w)
  /\ pc' = [pc EXCEPT ![w] = "record"]
  /\ UNCHANGED evaluation
  /\ UNCHANGED << now, tracker, config, frame, history, budget >>

\* line 70, and the read of "_api_call_count += 1" (line 71): the grant
RecordCall(w) ==
  /\ pc[w] = "record"
  /\ _last_api_call_time' = now
  /\ loaded' = [loaded EXCEPT ![w] = _api_call_count]
  /\ grants' = Append(grants, [at |-> now, by |-> w, reset |-> resetSince])
  /\ resetSince' = FALSE
  /\ pc' = [pc EXCEPT ![w] = "store_count"]
  /\ UNCHANGED evaluation
  /\ UNCHANGED << now, _api_call_count, _minute_start_time, config,
                  max_retries, attempt, err, result, sleep, ncalls, nacq,
                  counted, okcalls, budget >>

\* the write of "_api_call_count += 1" (line 71); _wait_for_rate_limit
\* returns to line 89
StoreCount(w) ==
  /\ pc[w] = "store_count"
  /\ _api_call_count' = loaded[w] + 1
  /\ loaded' = [loaded EXCEPT ![w] = 0]
  /\ counted' = counted + 1
  /\ nacq' = [nacq EXCEPT ![w] = @ + 1]
  /\ pc' = [pc EXCEPT ![w] = "loop"]
  /\ UNCHANGED evaluation
  /\ UNCHANGED << now, _last_api_call_time, _minute_start_time, config,
                  max_retries, attempt, err, result, sleep, ncalls, grants,
                  resetSince, okcalls, budget >>

\* line 91: for attempt in range(max_retries)
InRange(a, m) == a < m

LoopEnter(w) ==
  /\ pc[w] = "loop"
  /\ InRange(attempt[w], max_retries[w])
  /\ pc' = [pc EXCEPT ![w] = "call"]
  /\ UNCHANGED evaluation
  /\ UNCHANGED << now, tracker, config, frame, sleep, history, budget >>

\* line 155: the loop ran out
LoopExhausted(w) ==
  /\ pc[w] = "loop"
  /\ ~InRange(attempt[w], max_retries[w])
  /\ result' = [result EXCEPT ![w] =
                  [kind |-> "Failed", attempts |-> max_retries[w], text |-> {}]]
  /\ pc' = [pc EXCEPT ![w] = "done"]
  /\ UNCHANGED evaluation
  /\ UNCHANGED << now, tracker, config, max_retries, attempt, loaded, err,
                  sleep, history, budget >>

\* lines 96-112: the external call, and what it gives
Call(w) ==
  /\ pc[w] = "call"
  /\ \E o \in Outcomes :
       /\ o # OK => failuresLeft > 0
       /\ err' = [err EXCEPT ![w] = o]
       /\ failuresLeft' = IF o = OK THEN failuresLeft ELSE failuresLeft - 1
       /\ okcalls' = [okcalls EXCEPT ![w] =
                        IF o = OK /\ @ = 0 THEN ncalls[w] + 1 ELSE @]
  /\ ncalls' = [ncalls EXCEPT ![w] = @ + 1]
  /\ pc' = [pc EXCEPT ![w] = "returned"]
  /\ UNCHANGED evaluation
  /\ UNCHANGED << now, tracker, config, max_retries, attempt, loaded, result,
                  sleep, nacq, grants, resetSince, counted, invokesLeft >>

\* a response that does not end the loop
ReturnResponseContinues(w) ==
  /\ pc[w] = "returned"
  /\ err[w] = OK
  /\ attempt' = [attempt EXCEPT ![w] = @ + 1]
  /\ pc' = [pc EXCEPT ![w] = "loop"]
  /\ UNCHANGED evaluation
  /\ UNCHANGED << now, tracker, config, max_retries, loaded, err, result,
                  sleep, history, budget >>

\* lines 114-115
ReturnResponse(w) ==
  /\ pc[w] = "returned"
  /\ err[w] = OK
  /\ result' = [result EXCEPT ![w] =
                  [kind |-> "response", attempts |-> attempt[w] + 1, text |-> {}]]
  /\ pc' = [pc EXCEPT ![w] = "done"]
  /\ UNCHANGED evaluation
  /\ UNCHANGED << now, tracker, config, max_retries, attempt, loaded, err,
                  sleep, history, budget >>

\* lines 121-139: a rate-limit error
HandleRateLimit(w) ==
  /\ pc[w] = "returned"
  /\ err[w] # OK
  /\ IsRateLimitError(err[w])
  /\ IF AttemptsRemain(attempt[w], max_retries[w])
       THEN /\ \E j \in Jitters : StartSleep(w, BackoffDelay(attempt[w]) + j)
            /\ pc' = [pc EXCEPT ![w] = "backoff"]
            /\ UNCHANGED result
       ELSE /\ result' = [result EXCEPT ![w] =
                  [kind |-> "RateLimitExceeded", attempts |-> max_retries[w],
                   text |-> {}]]
            /\ pc' = [pc EXCEPT ![w] = "done"]
            /\ UNCHANGED sleep
  /\ UNCHANGED evaluation
  /\ UNCHANGED << now, tracker, config, max_retries, attempt, loaded, err,
                  history, budget >>

\* lines 126-133: the sleep returns, the window is reset, continue
RetryAfterRateLimit(w) ==
  /\ pc[w] = "backoff"
  /\ SleepOver(w)
  /\ SleepReturns(w)
  /\ _api_call_count' = 0
  /\ _minute_start_time' = now
  /\ counted' = 0
  /\ attempt' = [attempt EXCEPT ![w] = @ + 1]
  /\ pc' = [pc EXCEPT ![w] = "loop"]
  /\ UNCHANGED evaluation
  /\ UNCHANGED << now, _last_api_call_time, config, max_retries, loaded, err,
                  result, ncalls, nacq, grants, resetSince, okcalls, budget >>

\* lines 142-149: a timeout error
HandleTimeout(w) ==
  /\ pc[w] = "returned"
  /\ err[w] # OK
  /\ ~IsRateLimitError(err[w])
  /\ IsTimeoutError(err[w])
  /\ IF AttemptsRemain(attempt[w], max_retries[w])
       THEN /\ StartSleep(w, TimeoutDelay(attempt[w]))
            /\ pc' = [pc EXCEPT ![w] = "timeout_sleep"]
            /\ UNCHANGED result
       ELSE /\ result' = [result EXCEPT ![w] =
                  [kind |-> "Timeout", attempts |-> max_retries[w], text |-> {}]]
            /\ pc' = [pc EXCEPT ![w] = "done"]
            /\ UNCHANGED sleep
  /\ UNCHANGED evaluation
  /\ UNCHANGED << now, tracker, config, max_retries, attempt, loaded, err,
                  history, budget >>

\* lines 146-147: the sleep returns, continue
RetryAfterTimeout(w) ==
  /\ pc[w] = "timeout_sleep"
  /\ SleepOver(w)
  /\ SleepReturns(w)
  /\ attempt' = [attempt EXCEPT ![w] = @ + 1]
  /\ pc' = [pc EXCEPT ![w] = "loop"]
  /\ UNCHANGED evaluation
  /\ UNCHANGED << now, tracker, config, max_retries, loaded, err, result,
                  history, budget >>

\* any other error retried as a timeout is
HandleOtherRetries(w) ==
  /\ pc[w] = "returned"
  /\ err[w] # OK
  /\ ~IsRateLimitError(err[w])
  /\ ~IsTimeoutError(err[w])
  /\ IF AttemptsRemain(attempt[w], max_retries[w])
       THEN /\ StartSleep(w, TimeoutDelay(attempt[w]))
            /\ pc' = [pc EXCEPT ![w] = "timeout_sleep"]
            /\ UNCHANGED result
       ELSE /\ result' = [result EXCEPT ![w] =
                  [kind |-> "ApiError", attempts |-> attempt[w] + 1,
                   text |-> err[w]]]
            /\ pc' = [pc EXCEPT ![w] = "done"]
            /\ UNCHANGED sleep
  /\ UNCHANGED evaluation
  /\ UNCHANGED << now, tracker, config, max_retries, attempt, loaded, err,
                  history, budget >>

\* lines 152-153: any other error
HandleOther(w) ==
  /\ pc[w] = "returned"
  /\ err[w] # OK
  /\ ~IsRateLimitError(err[w])
  /\ ~IsTimeoutError(err[w])
  /\ result' = [result EXCEPT ![w] =
                  [kind |-> "ApiError", attempts |-> attempt[w] + 1,
                   text |-> err[w]]]
  /\ pc' = [pc EXCEPT ![w] = "done"]
  /\ UNCHANGED evaluation
  /\ UNCHANGED << now, tracker, config, max_retries, attempt, loaded, err,
                  sleep, history, budget >>

\* generate_content has returned or raised: its frame is gone
Finish(w) ==
  /\ pc[w] = "done"
  /\ max_retries' = [max_retries EXCEPT ![w] = MAX_RETRIES]
  /\ attempt' = [attempt EXCEPT ![w] = 0]
  /\ err' = [err EXCEPT ![w] = OK]
  /\ result' = [result EXCEPT ![w] = NoResult]
  /\ ncalls' = [ncalls EXCEPT ![w] = 0]
  /\ nacq' = [nacq EXCEPT ![w] = 0]
  /\ okcalls' = [okcalls EXCEPT ![w] = 0]
  /\ sleptAt' = [sleptAt EXCEPT ![w] = 0]
  /\ pc' = [pc EXCEPT ![w] = "idle"]
  /\ UNCHANGED evaluation
  /\ UNCHANGED << now, tracker, config, loaded, wait_time, wake, grants,
                  resetSince, counted, budget >>

\* reset_rate_limiter, lines 214-220
reset_rate_limiter(w) ==
  /\ pc[w] = "idle"
  /\ invokesLeft > 0
  /\ ~resetSince
  /\ _api_call_count' = 0
  /\ _minute_start_time' = now
  /\ _last_api_call_time' = 0
  /\ counted' = 0
  /\ resetSince' = TRUE
  /\ UNCHANGED evaluation
  /\ UNCHANGED << now, config, pc, frame, sleep, ncalls, nacq, grants,
                  okcalls, budget >>

Next ==
  \/ ClockAdvance
  \/ \E w \in workers : Invoke(w)
  \/ \E w \in workers : ResetMinuteCounter(w)
  \/ \E w \in workers : CheckLimit(w)
  \/ \E w \in workers : Cooldown(w)
  \/ \E w \in workers : MinDelay(w)
  \/ \E w \in workers : DelaySleep(w)
  \/ \E w \in workers : RecordCall(w)
  \/ \E w \in workers : StoreCount(w)
  \/ \E w \in workers : LoopEnter(w)
  \/ \E w \in workers : LoopExhausted(w)
  \/ \E w \in workers : Call(w)
  \/ \E w \in workers : ReturnResponse(w)
  \/ \E w \in workers : HandleRateLimit(w)
  \/ \E w \in workers : RetryAfterRateLimit(w)
  \/ \E w \in workers : HandleTimeout(w)
  \/ \E w \in workers : RetryAfterTimeout(w)
  \/ \E w \in workers : HandleOther(w)
  \/ \E w \in workers : Finish(w)
  \/ \E w \in workers : reset_rate_limiter(w)

Spec == Init /\ [][Next]_vars

\* what a thread does by itself once generate_content is called: every step
\* but the call (Invoke) and the manual reset
Step(w) ==
  \/ ResetMinuteCounter(w)
  \/ CheckLimit(w)
  \/ Cooldown(w)
  \/ MinDelay(w)
  \/ DelaySleep(w)
  \/ RecordCall(w)
  \/ StoreCount(w)
  \/ LoopEnter(w)
  \/ LoopExhausted(w)
  \/ Call(w)
  \/ ReturnResponse(w)
  \/ HandleRateLimit(w)
  \/ RetryAfterRateLimit(w)
  \/ HandleTimeout(w)
  \/ RetryAfterTimeout(w)
  \/ HandleOther(w)

\* The interpreter goes on running a thread that can take a step, the
\* external call of lines 96-112 ends (Call), and the clock goes on to
\* every instant a sleep waits for.
Fairness ==
  /\ WF_vars(ClockAdvance)
  /\ \A w \in Workers : WF_vars(Step(w))

SpecLive == Init /\ [][Next]_vars /\ Fairness

\* several threads on the one tracker (section 5 of the design)
InitConc ==
  /\ InitCommon
  /\ EvaluationIdle
  /\ workers = Workers
  /\ retryArgs = {0, MAX_RETRIES}
  /\ callsPerMinuteLimit = SmallLimit
  /\ minDelayBetweenCalls = SmallDelay
  /\ invokesLeft = ConcWorkers
  /\ failuresLeft = FewFailures

SpecConc == InitConc /\ [][Next]_vars

\* ============================================== determine_candidate_tier
\* evaluator.py, lines 184-229.  Scores are whole percents: every
\* comparison of the function is with a whole number, so a score with
\* decimals is classified as its integer part is.
MAX_SCORE == 100
OverallScores == 0..MAX_SCORE

\* line 202: the categories the safeguard reads
CRITICAL == {"skills", "tools", "experience"}
CategoryScores == {0, 30, 40, 50, MAX_SCORE}
\* the score maps, restricted to the keys the function reads; a key may be
\* missing
ScoreMaps == UNION {[d -> CategoryScores] : d \in SUBSET CRITICAL}

\* lines 216 and 223: the phrases looked for
POSITIVE_PHRASES == {"strong hire", "excellent fit"}
NEGATIVE_PHRASES == {"not recommended", "poor fit", "limited alignment"}
EmptyRationale == [kind |-> "text", phrases |-> {}]
TextWith(ps) == [kind |-> "text", phrases |-> ps]
\* None, "", a text with none of the phrases, a text with one of them, and a
\* text with a phrase of each kind
Rationales ==
  {NoRationale, [kind |-> "empty", phrases |-> {}], EmptyRationale}
    \cup {TextWith({ph}) : ph \in POSITIVE_PHRASES \cup NEGATIVE_PHRASES}
    \cup {TextWith({"strong hire", "not recommended"})}

TierRank(t) == CHOOSE i \in 1..Len(TierOrder) : TierOrder[i] = t

\* thresholds that exclude their own value
BaseTierExclusive(s) ==
  IF s > 80 THEN "TOP"
  ELSE IF s > 60 THEN "BEST"
  ELSE IF s > 40 THEN "MODERATE"
  ELSE IF s > 20 THEN "LOW"
  ELSE "VERY_LOW"

\* lines 190-199
BaseTier(s) ==
  IF s >= 80 THEN "TOP"
  ELSE IF s >= 60 THEN "BEST"
  ELSE IF s >= 40 THEN "MODERATE"
  ELSE IF s >= 20 THEN "LOW"
  ELSE "VERY_LOW"

\* scores.get(key, 0)
Get(m, key) == IF key \in DOMAIN m THEN m[key] ELSE 0

\* line 203: sum(scores.get(key, 0) for key in critical_scores)
CriticalSum(m) == Get(m, "skills") + Get(m, "tools") + Get(m, "experience")

\* line 203: critical_avg < bound, the division by len(critical_scores)
\* carried to the other side
CriticalAvgBelow(m, bound) == CriticalSum(m) < bound * Cardinality(CRITICAL)

\* the two downgrades applied one after the other
SafeguardCascading(t, m) ==
  LET first == IF CriticalAvgBelow(m, 50) /\ t \in {"TOP", "BEST"}
                 THEN "MODERATE" ELSE t
  IN  IF CriticalAvgBelow(m, 30) /\ first = "MODERATE" THEN "LOW" ELSE first

\* lines 206-209
Safeguard(t, m) ==
  IF CriticalAvgBelow(m, 50) /\ t \in {"TOP", "BEST"} THEN "MODERATE"
  ELSE IF CriticalAvgBelow(m, 30) /\ t = "MODERATE" THEN "LOW"
  ELSE t

\* line 212: if ai_reasoning
Truthy(r) == r.kind = "text"
\* line 216
IsPositive(r) == r.phrases \cap POSITIVE_PHRASES # {}
\* line 223, reached when line 216 is false
IsNegative(r) == ~IsPositive(r) /\ r.phrases \cap NEGATIVE_PHRASES # {}

\* the downgrade with its two branches exchanged
ReasoningAdjustmentSwapped(t, s, r) ==
  IF ~Truthy(r) THEN t
  ELSE IF IsPositive(r)
    THEN IF s >= 70 THEN "TOP" ELSE IF s >= 60 THEN "BEST" ELSE t
  ELSE IF IsNegative(r)
    THEN IF s < 50 THEN "MODERATE" ELSE "LOW"
  ELSE t

\* lines 212-227
ReasoningAdjustment(t, s, r) ==
  IF ~Truthy(r) THEN t
  ELSE IF IsPositive(r)
    THEN IF s >= 70 THEN "TOP" ELSE IF s >= 60 THEN "BEST" ELSE t
  ELSE IF IsNegative(r)
    THEN IF s < 50 THEN "LOW" ELSE "MODERATE"
  ELSE t

\* the whole function
determine_candidate_tier(s, m, r) ==
  ReasoningAdjustment(Safeguard(BaseTier(s), m), s, r)

\* line 184: the function is called with some arguments
InitTier ==
  /\ ClientIdle
  /\ EngineIdle
  /\ RubricIdle
  /\ RankIdle
  /\ NormalizeIdle
  /\ tier_pc = "called"
  /\ overall_score \in OverallScores
  /\ scores \in ScoreMaps
  /\ ai_reasoning \in Rationales
  /\ candidate_tier = NoTier
  /\ base_tier = NoTier
  /\ guarded_tier = NoTier

\* lines 190-199
PrimaryLogic ==
  /\ tier_pc = "called"
  /\ candidate_tier' = BaseTier(overall_score)
  /\ base_tier' = candidate_tier'
  /\ tier_pc' = "safeguard"
  /\ UNCHANGED << overall_score, scores, ai_reasoning, guarded_tier >>
  /\ UNCHANGED << client, ranking, normalizing, rubric, engine >>

\* lines 202-209
CriticalSafeguard ==
  /\ tier_pc = "safeguard"
  /\ candidate_tier' = Safeguard(candidate_tier, scores)
  /\ guarded_tier' = candidate_tier'
  /\ tier_pc' = "reasoning"
  /\ UNCHANGED << overall_score, scores, ai_reasoning, base_tier >>
  /\ UNCHANGED << client, ranking, normalizing, rubric, engine >>

\* lines 212-229, up to the return
AdjustAndReturn ==
  /\ tier_pc = "reasoning"
  /\ candidate_tier' =
       ReasoningAdjustment(candidate_tier, overall_score, ai_reasoning)
  /\ tier_pc' = "returned"
  /\ UNCHANGED << overall_score, scores, ai_reasoning, base_tier,
                  guarded_tier >>
  /\ UNCHANGED << client, ranking, normalizing, rubric, engine >>

NextTier ==
  \/ PrimaryLogic
  \/ CriticalSafeguard
  \/ AdjustAndReturn

SpecTier == InitTier /\ [][NextTier]_vars

\* ======================================================= rank_candidates
\* evaluator.py, lines 488-499.  The results are dicts: the lists hold
\* references to them, and result_objects maps a reference to its dict.
MaxResults == 3
ResultScores == {70, 80, 90}

\* app.py lines 607-622: the dict of one evaluated resume, without a rank
ResultDict(score, cats) ==
  [overall_score |-> score, individual_scores |-> cats]

\* line 491: lambda x: x['overall_score']
OverallOf(ref) == result_objects[ref].overall_score

\* list(reversed(s))
Reverse(s) == [i \in 1..Len(s) |-> s[Len(s) + 1 - i]]

\* s with x put after its last element whose key is at most the key of x
RECURSIVE InsertAscending(_, _)
InsertAscending(s, x) ==
  IF s = << >> THEN << x >>
  ELSE IF OverallOf(s[Len(s)]) <= OverallOf(x) THEN Append(s, x)
  ELSE Append(InsertAscending(SubSeq(s, 1, Len(s) - 1), x), s[Len(s)])

\* list.sort: ascending in the key, elements of equal key in their order
RECURSIVE StableSort(_)
StableSort(s) ==
  IF s = << >> THEN << >>
  ELSE InsertAscending(StableSort(SubSeq(s, 1, Len(s) - 1)), s[Len(s)])

\* an ascending sort turned around
SortedReversedAfter(s) == Reverse(StableSort(s))

\* sorted(s, key=..., reverse=True): the list is reversed, sorted with the
\* stable ascending sort and reversed again
SortedReverse(s) == Reverse(StableSort(Reverse(s)))

\* result['rank'] = r
WithRank(obj, r) == ("rank" :> r) @@ obj

\* line 488: the function is called with a list of up to MaxResults dicts
InitRank ==
  /\ ClientIdle
  /\ EngineIdle
  /\ RubricIdle
  /\ TierIdle
  /\ NormalizeIdle
  /\ rank_pc = "called"
  /\ \E n \in 0..MaxResults :
       /\ result_objects \in
            [1..n -> {ResultDict(sc, [skills |-> sc]) : sc \in ResultScores}]
       /\ evaluation_results = [i \in 1..n |-> i]
  /\ given_results = result_objects
  /\ sorted_results = << >>
  /\ rank = 0

\* lines 490-494
SortResults ==
  /\ rank_pc = "called"
  /\ sorted_results' = SortedReverse(evaluation_results)
  /\ rank' = 1
  /\ rank_pc' = "loop"
  /\ UNCHANGED << result_objects, evaluation_results, given_results >>
  /\ UNCHANGED << client, tiering, normalizing, rubric, engine >>

\* a rank counted from 0
AssignRankFromZero ==
  /\ rank_pc = "loop"
  /\ rank <= Len(sorted_results)
  /\ result_objects' =
       [result_objects EXCEPT ![sorted_results[rank]] = WithRank(@, rank - 1)]
  /\ rank' = rank + 1
  /\ UNCHANGED << rank_pc, evaluation_results, sorted_results,
                  given_results >>
  /\ UNCHANGED << client, tiering, normalizing, rubric, engine >>

\* lines 496-497: one turn of the loop
AssignRank ==
  /\ rank_pc = "loop"
  /\ rank <= Len(sorted_results)
  /\ result_objects' =
       [result_objects EXCEPT ![sorted_results[rank]] = WithRank(@, rank)]
  /\ rank' = rank + 1
  /\ UNCHANGED << rank_pc, evaluation_results, sorted_results,
                  given_results >>
  /\ UNCHANGED << client, tiering, normalizing, rubric, engine >>

\* line 499
ReturnSorted ==
  /\ rank_pc = "loop"
  /\ rank > Len(sorted_results)
  /\ rank_pc' = "returned"
  /\ UNCHANGED << result_objects, evaluation_results, sorted_results, rank,
                  given_results >>
  /\ UNCHANGED << client, tiering, normalizing, rubric, engine >>

NextRank ==
  \/ SortResults
  \/ AssignRank
  \/ ReturnSorted

SpecRank == InitRank /\ [][NextRank]_vars

\* ===================================================== normalize_weights
\* rubrics_generator.py, lines 157-173.  A weight is counted in hundredths
\* of a percent point, the precision of round(x, 2): 2500 is 25%.  A map is
\* a function on some of the category names, read in the order WeightKeys.
HUNDREDTHS == 100
FULL_WEIGHT == 100 * HUNDREDTHS

\* validate_rubrics, lines 246-247
WeightKeys == << "skills", "tools", "experience", "education", "projects",
                 "certifications", "profile_quality" >>
KeyIndex(k) == CHOOSE i \in 1..Len(WeightKeys) : WeightKeys[i] = k

\* config.py, lines 80-88
DEFAULT_RUBRICS_WEIGHTS ==
  [skills |-> 25 * HUNDREDTHS, tools |-> 25 * HUNDREDTHS,
   experience |-> 20 * HUNDREDTHS, education |-> 5 * HUNDREDTHS,
   projects |-> 15 * HUNDREDTHS, certifications |-> 5 * HUNDREDTHS,
   profile_quality |-> 5 * HUNDREDTHS]

\* the maps normalize_weights is given: the first n categories, n up to
\* MaxKeys, each with one of these weights
MaxKeys == 3
WeightValues == {0, 1, 25 * HUNDREDTHS, FULL_WEIGHT, FULL_WEIGHT + 1}
WeightMaps ==
  UNION {[{WeightKeys[i] : i \in 1..n} -> WeightValues] : n \in 0..MaxKeys}

\* sum(m.values())
RECURSIVE SumUpTo(_, _)
SumUpTo(m, i) ==
  IF i = 0 THEN 0
  ELSE SumUpTo(m, i - 1)
         + (IF WeightKeys[i] \in DOMAIN m THEN m[WeightKeys[i]] ELSE 0)
SumValues(m) == SumUpTo(m, Len(WeightKeys))

\* round(n / d, 0) for n >= 0 and d > 0: to the nearest, a half to the even
RoundDiv(n, d) ==
  LET q == n \div d
      r == n % d
  IN  IF 2 * r < d THEN q
      ELSE IF 2 * r > d THEN q + 1
      ELSE IF q % 2 = 0 THEN q ELSE q + 1

\* line 164: round((value / total) * 100, 2), in hundredths
Share(value, total) == RoundDiv(value * FULL_WEIGHT, total)

\* lines 163-164
Shares(m) == [k \in DOMAIN m |-> Share(m[k], SumValues(m))]

\* line 169: max(normalized, key=normalized.get), the first of the largest
MaxKey(n) ==
  CHOOSE k \in DOMAIN n :
    /\ \A j \in DOMAIN n : n[j] <= n[k]
    /\ \A j \in DOMAIN n : n[j] = n[k] => KeyIndex(k) <= KeyIndex(j)

\* the shares left as they were rounded
NotAdjusted(n) == n

\* lines 167-170
Adjusted(n) ==
  LET diff == FULL_WEIGHT - SumValues(n)
  IN  IF diff # 0 THEN [n EXCEPT ![MaxKey(n)] = @ + diff] ELSE n

\* lines 157-173
normalize_weights(m) ==
  IF SumValues(m) = 0 THEN DEFAULT_RUBRICS_WEIGHTS
  ELSE Adjusted(Shares(m))

\* line 157: the function is called with some map
InitNormalize ==
  /\ ClientIdle
  /\ EngineIdle
  /\ RubricIdle
  /\ TierIdle
  /\ RankIdle
  /\ norm_pc = "called"
  /\ weights \in WeightMaps
  /\ normalized = << >>
  /\ renormalized = << >>

\* lines 157-173
Normalize ==
  /\ norm_pc = "called"
  /\ normalized' = normalize_weights(weights)
  /\ norm_pc' = "normalized"
  /\ UNCHANGED << weights, renormalized >>
  /\ UNCHANGED << client, tiering, ranking, rubric, engine >>

\* lines 157-173, called with what the function returned
NormalizeAgain ==
  /\ norm_pc = "normalized"
  /\ renormalized' = normalize_weights(normalized)
  /\ norm_pc' = "renormalized"
  /\ UNCHANGED << weights, normalized >>
  /\ UNCHANGED << client, tiering, ranking, rubric, engine >>

NextNormalize ==
  \/ Normalize
  \/ NormalizeAgain

SpecNormalize == InitNormalize /\ [][NextNormalize]_vars

\* ================================================= the way of a rubric
\* app.py lines 450-511 and 605, generate_rubrics_from_jd
\* (rubrics_generator.py lines 14-154), evaluate_candidate_with_reasoning
\* (evaluator.py lines 11-46).

\* rubrics_generator.py line 145: abs(total_weight - 100) > 0.1
TOLERANCE == 10

\* a map without some keys
Without(m, ks) == [k \in DOMAIN m \ ks |-> m[k]]
\* the default weights with the weight of skills changed
SkillsChanged(d) == [DEFAULT_RUBRICS_WEIGHTS EXCEPT !.skills = @ + d]

\* what the service may put under "weights": the default map; the default
\* map with a sum 0.05, 0.10 or 0.11 off 100, or of 125; a map of zeros; an
\* empty map; maps without the education key, with a sum of 95 and of 100
AiDeltas ==
  {0, 5, -5, TOLERANCE, -TOLERANCE, TOLERANCE + 1, -(TOLERANCE + 1),
   25 * HUNDREDTHS}
AiWeightMaps ==
  {SkillsChanged(d) : d \in AiDeltas}
    \cup {[k \in DOMAIN DEFAULT_RUBRICS_WEIGHTS |-> 0], << >>}
    \cup {Without(SkillsChanged(d), {"education"}) : d \in {0, 5 * HUNDREDTHS}}

\* what generate_content and parse_json_response may give: an exception,
\* nothing that parses, a dict without "weights", a dict with "weights"
AiResponses ==
  {[kind |-> kd, weights |-> << >>] : kd \in {"error", "unparsed", "no_weights"}}
    \cup {[kind |-> "rubrics", weights |-> m] : m \in AiWeightMaps}

\* app.py lines 481-499: what the sliders may stand at, in whole percents
EditorMaps ==
  { DEFAULT_RUBRICS_WEIGHTS,
    SkillsChanged(5 * HUNDREDTHS),
    [k \in DOMAIN DEFAULT_RUBRICS_WEIGHTS |->
       IF k = "skills" THEN FULL_WEIGHT ELSE 0],
    [k \in DOMAIN DEFAULT_RUBRICS_WEIGHTS |->
       IF k \in {"skills", "tools"} THEN 50 * HUNDREDTHS ELSE 0] }

\* rubrics_generator.py line 145
OutOfTolerance(total) ==
  total - FULL_WEIGHT > TOLERANCE \/ FULL_WEIGHT - total > TOLERANCE

\* create_fallback_rubrics, lines 176-236
FallbackRubrics == [kind |-> "rubrics", weights |-> DEFAULT_RUBRICS_WEIGHTS]

\* app.py line 450: no rubric is stored for the job description
InitRubric ==
  /\ ClientIdle
  /\ EngineIdle
  /\ TierIdle
  /\ RankIdle
  /\ NormalizeIdle
  /\ rubric_pc = "missing"
  /\ ai_response = NoResponse
  /\ rubrics = NoRubrics
  /\ origin = "none"
  /\ applied = << >>

\* rubrics_generator.py lines 139-141 and 152-154, app.py line 458: the call
\* or the parsing fails, or rubrics['weights'] raises KeyError
GenerateFallback ==
  /\ rubric_pc = "missing"
  /\ \E r \in AiResponses :
       /\ r.kind \in {"error", "unparsed", "no_weights"}
       /\ ai_response' = r
  /\ rubrics' = FallbackRubrics
  /\ origin' = "fallback"
  /\ rubric_pc' = "stored"
  /\ UNCHANGED applied
  /\ UNCHANGED << client, tiering, ranking, normalizing, engine >>

\* lines 144-147, app.py line 458: the weights are normalized and stored
GenerateNormalized ==
  /\ rubric_pc = "missing"
  /\ \E r \in AiResponses :
       /\ r.kind = "rubrics"
       /\ OutOfTolerance(SumValues(r.weights))
       /\ ai_response' = r
       /\ rubrics' = [kind |-> "rubrics",
                      weights |-> normalize_weights(r.weights)]
       /\ origin' = IF SumValues(r.weights) = 0 THEN "zero_sum_default"
                    ELSE "normalized"
  /\ rubric_pc' = "stored"
  /\ UNCHANGED applied
  /\ UNCHANGED << client, tiering, ranking, normalizing, engine >>

\* lines 144-150, app.py line 458: the weights are stored as they came
GenerateAccepted ==
  /\ rubric_pc = "missing"
  /\ \E r \in AiResponses :
       /\ r.kind = "rubrics"
       /\ ~OutOfTolerance(SumValues(r.weights))
       /\ ai_response' = r
       /\ rubrics' = [kind |-> "rubrics", weights |-> r.weights]
  /\ origin' = "ai"
  /\ rubric_pc' = "stored"
  /\ UNCHANGED applied
  /\ UNCHANGED << client, tiering, ranking, normalizing, engine >>

\* app.py lines 491-511: the sliders total 100 and Save Rubrics is pressed
SaveEditedWeights ==
  /\ rubric_pc = "stored"
  /\ origin # "edited"
  /\ \E new_weights \in EditorMaps :
       /\ SumValues(new_weights) = FULL_WEIGHT
       /\ rubrics' = [rubrics EXCEPT !.weights = new_weights]
  /\ origin' = "edited"
  /\ UNCHANGED << rubric_pc, ai_response, applied >>
  /\ UNCHANGED << client, tiering, ranking, normalizing, engine >>

\* app.py line 605, evaluator.py lines 21-46: the stored weights are used
EvaluateCandidate ==
  /\ rubric_pc = "stored"
  /\ applied' = rubrics.weights
  /\ rubric_pc' = "evaluated"
  /\ UNCHANGED << ai_response, rubrics, origin >>
  /\ UNCHANGED << client, tiering, ranking, normalizing, engine >>

NextRubric ==
  \/ GenerateFallback
  \/ GenerateNormalized
  \/ GenerateAccepted
  \/ SaveEditedWeights
  \/ EvaluateCandidate

SpecRubric == InitRubric /\ [][NextRubric]_vars

\* ===================================== evaluate_candidate_with_reasoning
\* evaluator.py, lines 11-80 and the functions it calls.  A score is
\* counted in hundredths of a percent point, the precision of round(x, 2).
\* A field of the parsed job description or resume that the code reads
\* with .get is a record whose flag ok says that it is the dict the code
\* expects; a field that is not (a JSON null, a string) has ok = FALSE and
\* every .get on it raises AttributeError.
NEUTRAL_SCORE == 50 * HUNDREDTHS
FULL_SCORE == 100 * HUNDREDTHS
\* one percent point of the overall score, which is a sum of products of a
\* score and a weight divided by 100
POINT == HUNDREDTHS * HUNDREDTHS * 100

\* the skills and tools a job description may ask for
SKILL_NAMES == {"python", "sql", "aws"}
ROLE_NAMES == {"engineer", "analyst"}

\* what re.findall gives for an experience string: the numbers before
\* "year" or "yr" and the numbers before "month" or "mon"
ExpString(ys, ms) == [years |-> ys, months |-> ms]
NoNumber == ExpString(<< >>, << >>)
Years(y) == ExpString(<< y >>, << >>)
Months(m) == ExpString(<< >>, << m >>)
YearsMonths(y, m) == ExpString(<< y >>, << m >>)

\* extract_years, lines 453-467, in months: years + months / 12
extract_years(e) ==
  12 * (IF e.years # << >> THEN e.years[1] ELSE 0)
    + (IF e.months # << >> THEN e.months[1] ELSE 0)

\* the most years an experience string of the cases names
MaxYears == 6

\* the experience strings of the cases: no number, whole years, months
\* alone, years and months
ExperienceStrings ==
  {NoNumber} \cup {Years(y) : y \in 0..MaxYears} \cup {Months(m) : m \in {10, 20, 30}}
    \cup {YearsMonths(1, 8), YearsMonths(2, 1), YearsMonths(2, 6)}

\* extract_years returns the double years + months / 12, and lines 330-336
\* compare doubles.  Among the experience strings above these are the
\* triples (required, candidate, tenths) at which the candidate's exact
\* value is the exact threshold required * tenths / 10 while its double is
\* below the double threshold: 1 + 8 / 12 < 20 / 12, and
\* 10 / 12 < (2 + 1 / 12) * 0.4, as the interpreter computes them.  At every
\* other triple of these strings the doubles compare as the exact values.
DOUBLE_BELOW ==
  { << Months(20), YearsMonths(1, 8), 10 >>,
    << YearsMonths(2, 1), Months(10), 4 >>,
    << YearsMonths(2, 1), Months(20), 8 >>,
    << YearsMonths(2, 1), YearsMonths(1, 8), 8 >> }

\* the comparison in exact arithmetic, in months
AtLeastShareExact(c, r, tenths) ==
  10 * extract_years(c) >= tenths * extract_years(r)

\* resume_years >= jd_years * (tenths / 10)
AtLeastShare(c, r, tenths) ==
  /\ << r, c, tenths >> \notin DOUBLE_BELOW
  /\ 10 * extract_years(c) >= tenths * extract_years(r)

\* lines 327-340
ExperienceBands(r, c) ==
  IF extract_years(r) = 0
    THEN (IF extract_years(c) <= 12 THEN FULL_SCORE ELSE 80 * HUNDREDTHS)
  ELSE IF AtLeastShare(c, r, 10) THEN FULL_SCORE
  ELSE IF AtLeastShare(c, r, 8) THEN 85 * HUNDREDTHS
  ELSE IF AtLeastShare(c, r, 6) THEN 70 * HUNDREDTHS
  ELSE IF AtLeastShare(c, r, 4) THEN 50 * HUNDREDTHS
  ELSE 30 * HUNDREDTHS

\* lines 286-289 and 308-311: round(min(matched / asked * 100, 100), 2)
MatchPercentage(asked, offered) ==
  LET pct == RoundDiv(Cardinality(asked \cap offered) * FULL_SCORE,
                      Cardinality(asked))
  IN  IF pct > FULL_SCORE THEN FULL_SCORE ELSE pct

\* evaluate_skills, lines 274-293
evaluate_skills(jd, resume, rc) ==
  IF ~jd.required_skills.ok \/ ~resume.skills.ok THEN NEUTRAL_SCORE
  ELSE IF jd.required_skills.technical_skills = {} THEN NEUTRAL_SCORE
  ELSE MatchPercentage(jd.required_skills.technical_skills,
                       resume.skills.technical_skills)

\* evaluate_tools, lines 296-315
evaluate_tools(jd, resume, rc) ==
  IF ~jd.required_skills.ok \/ ~resume.skills.ok THEN NEUTRAL_SCORE
  ELSE IF jd.required_skills.tools = {} THEN NEUTRAL_SCORE
  ELSE MatchPercentage(jd.required_skills.tools, resume.skills.tools)

\* evaluate_experience, lines 318-343
evaluate_experience(jd, resume, rc) ==
  IF ~jd.experience.ok \/ ~resume.experience.ok THEN NEUTRAL_SCORE
  ELSE ExperienceBands(jd.experience.required_years,
                       resume.experience.total_experience)

\* scoring.get(key, default)
TableGet(table, key, default) ==
  IF key \in DOMAIN table THEN table[key] ELSE default

\* lines 358-367: a degree is the set of the words looked for that occur
\* in it
EducationByTable(table, degree) ==
  IF "phd" \in degree \/ "doctorate" \in degree
    THEN TableGet(table, "phd", 100 * HUNDREDTHS)
  ELSE IF "master" \in degree \/ "mtech" \in degree
    THEN TableGet(table, "masters", 90 * HUNDREDTHS)
  ELSE IF "bachelor" \in degree \/ "btech" \in degree
    THEN TableGet(table, "bachelors", 80 * HUNDREDTHS)
  ELSE IF "diploma" \in degree
    THEN TableGet(table, "diploma", 60 * HUNDREDTHS)
  ELSE TableGet(table, "other", 40 * HUNDREDTHS)

\* evaluate_education, lines 346-371
evaluate_education(jd, resume, rc) ==
  IF ~resume.education.ok THEN NEUTRAL_SCORE
  ELSE IF resume.education.degrees = << >>
    THEN (IF rc.education_criteria.is_mandatory
            THEN 0 ELSE 30 * HUNDREDTHS)
  ELSE EducationByTable(rc.education_criteria.scoring,
                        resume.education.degrees[1])

\* evaluate_projects, lines 374-394; the quotient of line 390 is exact for
\* the counts and minimums of the cases below
evaluate_projects(jd, resume, rc) ==
  LET project_count == resume.projects
      min_projects == rc.projects_criteria.minimum_projects
  IN  IF project_count = 0 THEN 0
      ELSE IF project_count >= min_projects + 3 THEN FULL_SCORE
      ELSE IF project_count >= min_projects THEN 80 * HUNDREDTHS
      ELSE (project_count * 60 * HUNDREDTHS) \div min_projects

\* evaluate_certifications, lines 397-417
evaluate_certifications(jd, resume, rc) ==
  LET cert_count == resume.certifications
  IN  IF cert_count = 0
        THEN (IF rc.certifications_criteria.required
                THEN 0 ELSE 30 * HUNDREDTHS)
      ELSE IF cert_count >= 4 THEN FULL_SCORE
      ELSE IF cert_count >= 2 THEN 75 * HUNDREDTHS
      ELSE NEUTRAL_SCORE

\* evaluate_profile_quality, lines 420-450
evaluate_profile_quality(jd, resume, rc) ==
  IF ~resume.profile_quality.ok \/ ~jd.experience.ok
       \/ ~resume.experience.ok
    THEN NEUTRAL_SCORE
  ELSE
    LET pq == resume.profile_quality
        profile_score == (IF pq.has_linkedin THEN 20 * HUNDREDTHS ELSE 0)
                           + (IF pq.has_github THEN 20 * HUNDREDTHS ELSE 0)
                           + (IF pq.has_portfolio THEN 10 * HUNDREDTHS ELSE 0)
        jd_roles == jd.experience.required_roles
        role_score ==
          IF jd_roles # {}
            THEN RoundDiv(Cardinality(jd_roles \cap resume.experience.roles)
                            * 50 * HUNDREDTHS, Cardinality(jd_roles))
            ELSE 25 * HUNDREDTHS
        total_score == profile_score + role_score
    IN  IF total_score > FULL_SCORE THEN FULL_SCORE ELSE total_score

\* the scorer of a category, and whether its except clause is entered
Scorer(k, jd, resume, rc) ==
  CASE k = "skills" -> evaluate_skills(jd, resume, rc)
    [] k = "tools" -> evaluate_tools(jd, resume, rc)
    [] k = "experience" -> evaluate_experience(jd, resume, rc)
    [] k = "education" -> evaluate_education(jd, resume, rc)
    [] k = "projects" -> evaluate_projects(jd, resume, rc)
    [] k = "certifications" -> evaluate_certifications(jd, resume, rc)
    [] k = "profile_quality" -> evaluate_profile_quality(jd, resume, rc)

ScorerFails(k, jd, resume) ==
  CASE k \in {"skills", "tools"} -> ~jd.required_skills.ok \/ ~resume.skills.ok
    [] k = "experience" -> ~jd.experience.ok \/ ~resume.experience.ok
    [] k = "education" -> ~resume.education.ok
    [] k = "profile_quality" ->
         ~resume.profile_quality.ok \/ ~jd.experience.ok
           \/ ~resume.experience.ok
    [] OTHER -> FALSE

\* -------------------------------------------------- the overall score
\* line 21: rubrics_config.get('weights', {})
WeightsOf(rc) == rc.weights

\* line 46, exactly: the sum over the scored categories of score * weight,
\* in millionths of a point
RECURSIVE WeightedSumUpTo(_, _, _)
WeightedSumUpTo(sc, ws, n) ==
  IF n = 0 THEN 0
  ELSE WeightedSumUpTo(sc, ws, n - 1)
         + (IF WeightKeys[n] \in DOMAIN sc
              THEN sc[WeightKeys[n]] * Get(ws, WeightKeys[n])
              ELSE 0)

WeightedSum(sc, ws) == WeightedSumUpTo(sc, ws, Len(WeightKeys))

\* every category at the full score
FullScores == [k \in DOMAIN DEFAULT_RUBRICS_WEIGHTS |-> FULL_SCORE]
\* a third of the skills and of the tools, as in the base case below
ThirdScores ==
  [skills |-> 3333, tools |-> 3333, experience |-> FULL_SCORE,
   education |-> 80 * HUNDREDTHS, projects |-> 80 * HUNDREDTHS,
   certifications |-> 75 * HUNDREDTHS, profile_quality |-> 65 * HUNDREDTHS]
\* integer weights of sum 100
UNEVEN_WEIGHTS ==
  [skills |-> 55 * HUNDREDTHS, tools |-> 4 * HUNDREDTHS,
   experience |-> 14 * HUNDREDTHS, education |-> 3 * HUNDREDTHS,
   projects |-> 10 * HUNDREDTHS, certifications |-> 7 * HUNDREDTHS,
   profile_quality |-> 7 * HUNDREDTHS]

\* Line 46 adds doubles, so that overall_score is the exact sum or a double
\* next to it.  The side matters only where the exact sum is a whole number
\* of points or half a hundredth.  Of the cases below with such a sum, the
\* double is above the exact sum for the first pair (the interpreter gives
\* 100.00000000000001) and below it for the second (59.66499999999999); for
\* the others it is the exact sum.
DOUBLE_SUM_ABOVE == { << FullScores, UNEVEN_WEIGHTS >> }
DOUBLE_SUM_BELOW == { << ThirdScores, DEFAULT_RUBRICS_WEIGHTS >> }

\* the side of the double of line 46: 1 above, -1 below, 0 exact
DoubleExcess(sc, ws) ==
  IF << sc, ws >> \in DOUBLE_SUM_ABOVE THEN 1
  ELSE IF << sc, ws >> \in DOUBLE_SUM_BELOW THEN -1
  ELSE 0

\* the greatest whole number of points that overall_score is at least:
\* overall_score >= n for a whole n exactly when this number is >= n
WholePoints(sum, excess) ==
  IF sum % POINT = 0 /\ excess < 0 THEN sum \div POINT - 1 ELSE sum \div POINT

\* overall_score > n and overall_score < n for a whole n
AbovePoints(sum, excess, n) ==
  sum > n * POINT \/ (sum = n * POINT /\ excess > 0)
BelowPoints(sum, excess, n) ==
  sum < n * POINT \/ (sum = n * POINT /\ excess < 0)

\* line 73: round(overall_score, 2), in hundredths; a double that is not
\* half a hundredth goes to the nearest hundredth
Round2(sum, excess) ==
  LET unit == POINT \div HUNDREDTHS
  IN  IF 2 * (sum % unit) = unit /\ excess # 0
        THEN (IF excess > 0 THEN sum \div unit + 1 ELSE sum \div unit)
        ELSE RoundDiv(sum, unit)

\* ------------------------------------------------------- the rationale
\* lines 87-99 and 113: building the prompt reads these fields with .get
PromptFails(jd, resume) ==
  \/ ~jd.experience.ok
  \/ ~jd.required_skills.ok
  \/ ~resume.experience.ok
  \/ ~resume.education.ok
  \/ ~resume.skills.ok

\* generate_fallback_reasoning, lines 165-181: the phrases of NEGATIVE_PHRASES
\* and POSITIVE_PHRASES that its three texts contain
generate_fallback_reasoning(sum, excess) ==
  IF WholePoints(sum, excess) >= 75 THEN TextWith({})
  ELSE IF WholePoints(sum, excess) >= 55 THEN TextWith({})
  ELSE TextWith({"limited alignment", "not recommended"})

\* what generate_content gives at line 136: it raises a terminal error, or
\* returns None, "", a text of backticks only, or a text with some phrases
FencesOnly == [kind |-> "fences", phrases |-> {}]
ReasoningOutcomes ==
  {[call |-> "raised", text |-> NoRationale]}
    \cup {[call |-> "response", text |-> t] :
            t \in {NoRationale, [kind |-> "empty", phrases |-> {}], FencesOnly,
                   EmptyRationale, TextWith({"strong hire"}),
                   TextWith({"not recommended"})}}

\* line 138: if response
ResponseTruthy(t) == t.kind \in {"text", "fences"}

\* lines 141-153: the text without its backticks
CleanReasoning(t) ==
  IF t.kind = "fences" THEN [kind |-> "empty", phrases |-> {}] ELSE t

\* ----------------------------------------------------- the tier, line 60
\* determine_candidate_tier reads the sum of the three critical scores and
\* compares it with 3 * 50 and 3 * 30 points: the whole points of the sum
\* are handed to it under one key
CriticalPoints(sc) == [skills |-> CriticalSum(sc) \div HUNDREDTHS]

\* -------------------------- extract_strengths_weaknesses, lines 232-271
MAX_INSIGHTS == 5
MIN_WEIGHT == 10 * HUNDREDTHS
Entry(kind, of, value) == [kind |-> kind, of |-> of, value |-> value]
\* lines 266 and 269
StrengthPlaceholder == Entry("meets basic requirements", "none", 0)
WeaknessPlaceholder == Entry("no significant gaps", "none", 0)

\* lines 237-243, over the first n categories in the order of the scores
RECURSIVE CategoryStrengths(_, _, _)
CategoryStrengths(sc, ws, n) ==
  IF n = 0 THEN << >>
  ELSE LET k == WeightKeys[n]
       IN  CategoryStrengths(sc, ws, n - 1)
             \o (IF sc[k] >= 75 * HUNDREDTHS /\ Get(ws, k) >= MIN_WEIGHT
                   THEN << Entry("strong", k, sc[k]) >> ELSE << >>)

\* lines 237-247
RECURSIVE CategoryWeaknesses(_, _, _)
CategoryWeaknesses(sc, ws, n) ==
  IF n = 0 THEN << >>
  ELSE LET k == WeightKeys[n]
       IN  CategoryWeaknesses(sc, ws, n - 1)
             \o (IF sc[k] < 50 * HUNDREDTHS /\ Get(ws, k) >= MIN_WEIGHT
                   THEN << Entry("gap", k, sc[k]) >> ELSE << >>)

\* lines 250-256
SkillsEntry(sc, jd, resume) ==
  IF Get(sc, "skills") >= 70 * HUNDREDTHS
    THEN LET matched_skills ==
               Cardinality(jd.required_skills.technical_skills
                             \cap resume.skills.technical_skills)
         IN  IF matched_skills > 0
               THEN << Entry("matches", "skills", matched_skills) >>
               ELSE << >>
    ELSE << >>

\* lines 259-263
ExperienceEntry(sc, jd, resume) ==
  IF Get(sc, "experience") < 60 * HUNDREDTHS
    THEN IF ~AtLeastShare(resume.experience.total_experience,
                          jd.experience.required_years, 10)
           THEN << Entry("experience gap", "experience", 0) >>
           ELSE << >>
    ELSE << >>

\* lines 250-252 and 259-261 read the fields with .get outside every try
InsightsRaise(sc, jd, resume) ==
  \/ /\ Get(sc, "skills") >= 70 * HUNDREDTHS
     /\ ~jd.required_skills.ok \/ ~resume.skills.ok
  \/ /\ Get(sc, "experience") < 60 * HUNDREDTHS
     /\ ~jd.experience.ok \/ ~resume.experience.ok

\* the list as generated
StrengthsGenerated(sc, ws, jd, resume) ==
  CategoryStrengths(sc, ws, Len(WeightKeys))
    \o SkillsEntry(sc, jd, resume)
WeaknessesGenerated(sc, ws, jd, resume) ==
  CategoryWeaknesses(sc, ws, Len(WeightKeys))
    \o ExperienceEntry(sc, jd, resume)

\* s[:n]
Prefix(s, n) == SubSeq(s, 1, IF Len(s) < n THEN Len(s) ELSE n)

\* the list returned without the cut of line 271
FinishListUncut(generated, placeholder) ==
  IF generated = << >> THEN << placeholder >> ELSE generated

\* lines 265-271
FinishList(generated, placeholder) ==
  Prefix(IF generated = << >> THEN << placeholder >> ELSE generated,
         MAX_INSIGHTS)

\* --------------------------------------------------------- the cases
MaxProjects == 5
MaxCertifications == 5

\* a job description asking for three skills, three tools, five years and
\* two roles
BaseJd ==
  [required_skills |-> [ok |-> TRUE, technical_skills |-> SKILL_NAMES,
                        tools |-> SKILL_NAMES],
   experience |-> [ok |-> TRUE, required_years |-> Years(5),
                   required_roles |-> ROLE_NAMES]]

\* a resume with the three skills, one of the tools, five years, one of
\* the roles, a bachelor's degree, two projects and two certifications
BaseResume ==
  [skills |-> [ok |-> TRUE, technical_skills |-> SKILL_NAMES,
               tools |-> {"python"}],
   experience |-> [ok |-> TRUE, total_experience |-> Years(5),
                   roles |-> {"engineer"}],
   education |-> [ok |-> TRUE, degrees |-> << {"bachelor"} >>],
   projects |-> 2,
   certifications |-> 2,
   profile_quality |-> [ok |-> TRUE, has_linkedin |-> TRUE,
                        has_github |-> TRUE, has_portfolio |-> FALSE]]

NoTable == [k \in {} |-> 0]
\* rubrics_generator.py, lines 95-101 and 109: what the prompt asks for
PromptTable ==
  [phd |-> 100 * HUNDREDTHS, masters |-> 90 * HUNDREDTHS,
   bachelors |-> 80 * HUNDREDTHS, diploma |-> 60 * HUNDREDTHS,
   other |-> 40 * HUNDREDTHS]
BaseRubrics ==
  [weights |-> DEFAULT_RUBRICS_WEIGHTS,
   education_criteria |-> [is_mandatory |-> FALSE, scoring |-> NoTable],
   projects_criteria |-> [minimum_projects |-> 2],
   certifications_criteria |-> [required |-> FALSE]]

Case(jd, resume, rc) == [jd |-> jd, resume |-> resume, rubrics |-> rc]

OfferedSets == {{}, {"python"}, {"python", "sql"}, SKILL_NAMES}
SkillCases ==
  {Case([BaseJd EXCEPT !.required_skills.technical_skills = a],
        [BaseResume EXCEPT !.skills.technical_skills = b], BaseRubrics) :
     a \in {{}, SKILL_NAMES}, b \in OfferedSets}
ToolCases ==
  {Case([BaseJd EXCEPT !.required_skills.tools = a],
        [BaseResume EXCEPT !.skills.tools = b], BaseRubrics) :
     a \in {{}, SKILL_NAMES}, b \in OfferedSets}

\* one field that is not the dict or the list the code expects
MalformedCases ==
  { Case([BaseJd EXCEPT !.required_skills.ok = FALSE], BaseResume, BaseRubrics),
    Case([BaseJd EXCEPT !.experience.ok = FALSE], BaseResume, BaseRubrics),
    Case(BaseJd, [BaseResume EXCEPT !.skills.ok = FALSE], BaseRubrics),
    Case(BaseJd, [BaseResume EXCEPT !.experience.ok = FALSE], BaseRubrics),
    Case(BaseJd, [BaseResume EXCEPT !.education.ok = FALSE], BaseRubrics),
    Case(BaseJd, [BaseResume EXCEPT !.profile_quality.ok = FALSE], BaseRubrics) }

ExperienceCases ==
  {Case([BaseJd EXCEPT !.experience.required_years = r],
        [BaseResume EXCEPT !.experience.total_experience = c], BaseRubrics) :
     r \in ExperienceStrings, c \in ExperienceStrings}

\* the tables of the rubric: none, the one of the prompt, and two with a
\* value outside the range of a score
EducationTables ==
  {NoTable, PromptTable, [phd |-> 150 * HUNDREDTHS], [other |-> -10 * HUNDREDTHS]}
DegreeLists ==
  { << >>, << {"phd"} >>, << {"master"} >>, << {"bachelor"} >>,
    << {"diploma"} >>, << {} >>, << {"bachelor"}, {"phd"} >> }
EducationCases ==
  {Case(BaseJd, [BaseResume EXCEPT !.education.degrees = d],
        [BaseRubrics EXCEPT !.education_criteria =
                               [is_mandatory |-> m, scoring |-> t]]) :
     d \in DegreeLists, t \in EducationTables, m \in BOOLEAN}

\* the minimums for which the quotient of line 390 is exact
MinimumProjects == {2, 0, -1, 4}
ProjectCases ==
  {Case(BaseJd, [BaseResume EXCEPT !.projects = n],
        [BaseRubrics EXCEPT !.projects_criteria.minimum_projects = mn]) :
     n \in 0..MaxProjects, mn \in MinimumProjects}

CertificationCases ==
  {Case(BaseJd, [BaseResume EXCEPT !.certifications = n],
        [BaseRubrics EXCEPT !.certifications_criteria.required = rq]) :
     n \in 0..MaxCertifications, rq \in BOOLEAN}

ProfileCases ==
  {Case([BaseJd EXCEPT !.experience.required_roles = jr],
        [BaseResume EXCEPT !.experience.roles = rr,
                           !.profile_quality =
                              [ok |-> TRUE, has_linkedin |-> f[1],
                               has_github |-> f[2], has_portfolio |-> f[3]]],
        BaseRubrics) :
     jr \in {{}, {"engineer"}, ROLE_NAMES}, rr \in {{}, {"engineer"}},
     f \in [1..3 -> BOOLEAN]}

\* the weights of the cases: the default ones, six of 15 and one of 10,
\* integer ones, ones that leave four categories out of the score, ones of
\* sum 100.10 and ones without a key
EVEN_WEIGHTS ==
  [k \in DOMAIN DEFAULT_RUBRICS_WEIGHTS |->
     IF k = "profile_quality" THEN 10 * HUNDREDTHS ELSE 15 * HUNDREDTHS]
THREE_WEIGHTS ==
  [k \in DOMAIN DEFAULT_RUBRICS_WEIGHTS |->
     CASE k = "tools" -> 15 * HUNDREDTHS
       [] k = "experience" -> 55 * HUNDREDTHS
       [] k = "certifications" -> 30 * HUNDREDTHS
       [] OTHER -> 0]
CaseWeights ==
  { DEFAULT_RUBRICS_WEIGHTS, EVEN_WEIGHTS, UNEVEN_WEIGHTS, THREE_WEIGHTS,
    SkillsChanged(TOLERANCE), Without(DEFAULT_RUBRICS_WEIGHTS, {"education"}) }

\* every category at its best or at its worst
Extreme(high, w) ==
  Case(BaseJd,
       [skills |-> [ok |-> TRUE,
                    technical_skills |-> IF high["skills"] THEN SKILL_NAMES ELSE {},
                    tools |-> IF high["tools"] THEN SKILL_NAMES ELSE {}],
        experience |-> [ok |-> TRUE,
                        total_experience |->
                          IF high["experience"] THEN Years(5) ELSE Years(1),
                        roles |-> IF high["profile_quality"] THEN ROLE_NAMES ELSE {}],
        education |-> [ok |-> TRUE,
                       degrees |-> IF high["education"]
                                     THEN << {"phd"} >> ELSE << >>],
        projects |-> IF high["projects"] THEN 5 ELSE 0,
        certifications |-> IF high["certifications"] THEN 4 ELSE 0,
        profile_quality |-> [ok |-> TRUE,
                             has_linkedin |-> high["profile_quality"],
                             has_github |-> high["profile_quality"],
                             has_portfolio |-> high["profile_quality"]]],
       [BaseRubrics EXCEPT !.weights = w])
AllHigh == [k \in DOMAIN DEFAULT_RUBRICS_WEIGHTS |-> TRUE]
ExtremeCases ==
  {Extreme(high, w) : high \in [DOMAIN DEFAULT_RUBRICS_WEIGHTS -> BOOLEAN],
                      w \in {DEFAULT_RUBRICS_WEIGHTS, EVEN_WEIGHTS}}
    \cup {Extreme(AllHigh, w) : w \in CaseWeights}

\* the base case without certifications under each of the weights
WeightCases ==
  {Case(BaseJd, [BaseResume EXCEPT !.certifications = 0],
        [BaseRubrics EXCEPT !.weights = w,
                            !.certifications_criteria.required = rq]) :
     w \in CaseWeights, rq \in BOOLEAN}

Cases ==
  SkillCases \cup ToolCases \cup MalformedCases \cup ExperienceCases
    \cup EducationCases \cup ProjectCases \cup CertificationCases
    \cup ProfileCases \cup ExtremeCases \cup WeightCases

\* --------------------------------------------------------- the steps
others_than_evaluating ==
  << client, tiering, ranking, normalizing, rubric, parsing, batching >>

\* line 11: the function is called with some job description, resume and
\* rubric
InitEvaluate ==
  /\ ClientIdle
  /\ TierIdle
  /\ RankIdle
  /\ NormalizeIdle
  /\ RubricIdle
  /\ ParseIdle
  /\ BatchIdle
  /\ \E c \in Cases :
       /\ jd_data = c.jd
       /\ resume_data = c.resume
       /\ rubrics_config = c.rubrics
  /\ eval_pc = "skills"
  /\ individual_scores = << >>
  /\ eval_overall = 0
  /\ eval_reasoning = NoRationale
  /\ eval_tier = NoTier
  /\ strengths = << >>
  /\ weaknesses = << >>
  /\ eval_result = NoData
  /\ caught = {}
  /\ reasoning_source = "none"

\* one of the lines 24-42: the scorer of category k runs; its except
\* clause returns the neutral score
ScoreCategory(k) ==
  /\ individual_scores' =
       individual_scores @@ (k :> Scorer(k, jd_data, resume_data, rubrics_config))
  /\ caught' = IF ScorerFails(k, jd_data, resume_data)
                 THEN caught \cup {k} ELSE caught
  /\ UNCHANGED << jd_data, resume_data, rubrics_config, eval_overall,
                  eval_reasoning, eval_tier, strengths, weaknesses,
                  eval_result, reasoning_source >>
  /\ UNCHANGED others_than_evaluating

\* line 24
EvaluateSkills ==
  /\ eval_pc = "skills"
  /\ eval_pc' = "tools"
  /\ ScoreCategory("skills")

\* line 27
EvaluateTools ==
  /\ eval_pc = "tools"
  /\ eval_pc' = "experience"
  /\ ScoreCategory("tools")

\* line 30
EvaluateExperience ==
  /\ eval_pc = "experience"
  /\ eval_pc' = "education"
  /\ ScoreCategory("experience")

\* line 33
EvaluateEducation ==
  /\ eval_pc = "education"
  /\ eval_pc' = "projects"
  /\ ScoreCategory("education")

\* line 36
EvaluateProjects ==
  /\ eval_pc = "projects"
  /\ eval_pc' = "certifications"
  /\ ScoreCategory("projects")

\* line 39
EvaluateCertifications ==
  /\ eval_pc = "certifications"
  /\ eval_pc' = "profile_quality"
  /\ ScoreCategory("certifications")

\* line 42
EvaluateProfileQuality ==
  /\ eval_pc = "profile_quality"
  /\ eval_pc' = "overall"
  /\ ScoreCategory("profile_quality")

\* line 46
ComputeOverall ==
  /\ eval_pc = "overall"
  /\ eval_overall' = WeightedSum(individual_scores, WeightsOf(rubrics_config))
  /\ eval_pc' = "reasoning"
  /\ UNCHANGED << jd_data, resume_data, rubrics_config, individual_scores,
                  eval_reasoning, eval_tier, strengths, weaknesses,
                  eval_result, caught, reasoning_source >>
  /\ UNCHANGED others_than_evaluating

\* the side of the double held in overall_score
OverallExcess == DoubleExcess(individual_scores, WeightsOf(rubrics_config))

\* line 51, generate_ai_reasoning with a response: lines 138-155
ReasoningFromResponse ==
  /\ eval_pc = "reasoning"
  /\ ~PromptFails(jd_data, resume_data)
  /\ \E o \in ReasoningOutcomes :
       /\ o.call = "response"
       /\ ResponseTruthy(o.text)
       /\ eval_reasoning' = CleanReasoning(o.text)
  /\ reasoning_source' = "response"
  /\ eval_pc' = "tier"
  /\ UNCHANGED << jd_data, resume_data, rubrics_config, individual_scores,
                  eval_overall, eval_tier, strengths, weaknesses,
                  eval_result, caught >>
  /\ UNCHANGED others_than_evaluating

\* line 51, generate_ai_reasoning without one: the prompt cannot be built,
\* the call raises (line 160) or returns nothing (line 156)
ReasoningFromFallback ==
  /\ eval_pc = "reasoning"
  /\ \/ PromptFails(jd_data, resume_data)
     \/ \E o \in ReasoningOutcomes :
          o.call = "raised" \/ ~ResponseTruthy(o.text)
  /\ eval_reasoning' = generate_fallback_reasoning(eval_overall, OverallExcess)
  /\ reasoning_source' = "fallback"
  /\ eval_pc' = "tier"
  /\ UNCHANGED << jd_data, resume_data, rubrics_config, individual_scores,
                  eval_overall, eval_tier, strengths, weaknesses,
                  eval_result, caught >>
  /\ UNCHANGED others_than_evaluating

\* line 60
DetermineTier ==
  /\ eval_pc = "tier"
  /\ eval_tier' =
       determine_candidate_tier(WholePoints(eval_overall, OverallExcess),
                                CriticalPoints(individual_scores),
                                eval_reasoning)
  /\ eval_pc' = "insights"
  /\ UNCHANGED << jd_data, resume_data, rubrics_config, individual_scores,
                  eval_overall, eval_reasoning, strengths, weaknesses,
                  eval_result, caught, reasoning_source >>
  /\ UNCHANGED others_than_evaluating

\* line 64, returning
ExtractInsights ==
  /\ eval_pc = "insights"
  /\ ~InsightsRaise(individual_scores, jd_data, resume_data)
  /\ strengths' =
       FinishList(StrengthsGenerated(individual_scores,
                                     WeightsOf(rubrics_config),
                                     jd_data, resume_data),
                  StrengthPlaceholder)
  /\ weaknesses' =
       FinishList(WeaknessesGenerated(individual_scores,
                                      WeightsOf(rubrics_config),
                                      jd_data, resume_data),
                  WeaknessPlaceholder)
  /\ eval_pc' = "return"
  /\ UNCHANGED << jd_data, resume_data, rubrics_config, individual_scores,
                  eval_overall, eval_reasoning, eval_tier, eval_result,
                  caught, reasoning_source >>
  /\ UNCHANGED others_than_evaluating

\* line 64, raising: the AttributeError leaves
\* evaluate_candidate_with_reasoning, which has no try
InsightsError ==
  /\ eval_pc = "insights"
  /\ InsightsRaise(individual_scores, jd_data, resume_data)
  /\ eval_result' = [kind |-> "AttributeError"]
  /\ eval_pc' = "raised"
  /\ UNCHANGED << jd_data, resume_data, rubrics_config, individual_scores,
                  eval_overall, eval_reasoning, eval_tier, strengths,
                  weaknesses, caught, reasoning_source >>
  /\ UNCHANGED others_than_evaluating

\* lines 71-80
ReturnResult ==
  /\ eval_pc = "return"
  /\ eval_result' =
       [kind |-> "result",
        individual_scores |-> individual_scores,
        overall_score |-> Round2(eval_overall, OverallExcess),
        weights_applied |-> WeightsOf(rubrics_config),
        ai_reasoning |-> eval_reasoning,
        candidate_tier |-> eval_tier,
        strengths |-> strengths,
        weaknesses |-> weaknesses]
  /\ eval_pc' = "done"
  /\ UNCHANGED << jd_data, resume_data, rubrics_config, individual_scores,
                  eval_overall, eval_reasoning, eval_tier, strengths,
                  weaknesses, caught, reasoning_source >>
  /\ UNCHANGED others_than_evaluating

NextEvaluate ==
  \/ EvaluateSkills
  \/ EvaluateTools
  \/ EvaluateExperience
  \/ EvaluateEducation
  \/ EvaluateProjects
  \/ EvaluateCertifications
  \/ EvaluateProfileQuality
  \/ ComputeOverall
  \/ ReasoningFromResponse
  \/ ReasoningFromFallback
  \/ DetermineTier
  \/ ExtractInsights
  \/ InsightsError
  \/ ReturnResult

SpecEvaluate == InitEvaluate /\ [][NextEvaluate]_vars

\* ================================================== parse_json_response
\* ai_client.py, lines 158-200.  A text is the sequence of its pieces, which
\* white space separates: the two fences, the word json, the two braces, a
\* member of an object and a word of prose.
MaxTokens == 4
\* three backticks followed by json, and three backticks
FENCE_JSON == "fence json"
FENCE == "fence"
Tokens == {FENCE_JSON, FENCE, "json", "{", "}", "member", "prose"}
Str(toks) == [kind |-> "str", tokens |-> toks]
\* None, the value of message.content when the service sends no text
NoneText == [kind |-> "None", tokens |-> << >>]
Texts ==
  {NoneText} \cup {Str(toks) : toks \in UNION {[1..n -> Tokens] : n \in 0..MaxTokens}}

Range(s) == {s[i] : i \in 1..Len(s)}
\* the first position of a piece of the set in the text, 0 when there is none
Find(toks, set) ==
  IF \E i \in 1..Len(toks) : toks[i] \in set
    THEN CHOOSE i \in 1..Len(toks) :
           toks[i] \in set /\ \A j \in 1..(i - 1) : toks[j] \notin set
    ELSE 0
\* the last one
FindLast(toks, set) ==
  IF \E i \in 1..Len(toks) : toks[i] \in set
    THEN CHOOSE i \in 1..Len(toks) :
           toks[i] \in set /\ \A j \in (i + 1)..Len(toks) : toks[j] \notin set
    ELSE 0
\* text.split(sep)[1] and text.split(sep)[0], sep being any piece of the set
AfterFirst(toks, set) == SubSeq(toks, Find(toks, set) + 1, Len(toks))
BeforeFirst(toks, set) ==
  IF Find(toks, set) = 0 THEN toks ELSE SubSeq(toks, 1, Find(toks, set) - 1)

\* json.loads accepts the text: an object, empty or with one member
Loads(toks) == toks \in { << "{", "}" >>, << "{", "member", "}" >> }

\* clean_json_response, lines 158-178
clean_json_response(t) ==
  IF t.kind = "None" \/ t.tokens = << >> THEN t
  ELSE
    LET unfenced ==
          IF FENCE_JSON \in Range(t.tokens)
            THEN BeforeFirst(AfterFirst(t.tokens, {FENCE_JSON}),
                             {FENCE, FENCE_JSON})
          ELSE IF FENCE \in Range(t.tokens)
            THEN BeforeFirst(AfterFirst(t.tokens, {FENCE}), {FENCE})
          ELSE t.tokens
    IN  IF unfenced # << >> /\ Head(unfenced) = "json"
          THEN Str(Tail(unfenced)) ELSE Str(unfenced)

\* lines 192-195: text[start:end], or nothing when the condition of line
\* 194 is false
Braced(toks) ==
  LET start == Find(toks, {"{"})
      end == FindLast(toks, {"}"})
  IN  IF start # 0 /\ end > start THEN SubSeq(toks, start, end) ELSE << >>

others_than_parsing ==
  << client, tiering, ranking, normalizing, rubric, evaluating, batching >>

\* line 181: the function is called with some text
InitParse ==
  /\ ClientIdle
  /\ TierIdle
  /\ RankIdle
  /\ NormalizeIdle
  /\ RubricIdle
  /\ EvaluateIdle
  /\ BatchIdle
  /\ text_arg \in Texts
  /\ parse_pc = "clean"
  /\ cleaned_text = NoText
  /\ parsed = "unset"
  /\ stages = << >>

\* line 184
CleanText ==
  /\ parse_pc = "clean"
  /\ cleaned_text' = clean_json_response(text_arg)
  /\ parse_pc' = "strict"
  /\ UNCHANGED << text_arg, parsed, stages >>
  /\ UNCHANGED others_than_parsing

\* line 185, json.loads returns
StrictSucceeds ==
  /\ parse_pc = "strict"
  /\ cleaned_text.kind = "str"
  /\ Loads(cleaned_text.tokens)
  /\ stages' = Append(stages, "strict")
  /\ parsed' = "object"
  /\ parse_pc' = "done"
  /\ UNCHANGED << text_arg, cleaned_text >>
  /\ UNCHANGED others_than_parsing

\* line 185, json.loads raises JSONDecodeError: line 186 catches it
StrictFails ==
  /\ parse_pc = "strict"
  /\ cleaned_text.kind = "str"
  /\ ~Loads(cleaned_text.tokens)
  /\ stages' = Append(stages, "strict")
  /\ parse_pc' = "recovery"
  /\ UNCHANGED << text_arg, cleaned_text, parsed >>
  /\ UNCHANGED others_than_parsing

\* line 185, json.loads(None) raises TypeError, which line 186 does not
\* catch
StrictRaises ==
  /\ parse_pc = "strict"
  /\ cleaned_text.kind = "None"
  /\ stages' = Append(stages, "strict")
  /\ parsed' = "TypeError"
  /\ parse_pc' = "done"
  /\ UNCHANGED << text_arg, cleaned_text >>
  /\ UNCHANGED others_than_parsing

\* lines 191-196, json.loads returns
RecoverySucceeds ==
  /\ parse_pc = "recovery"
  /\ Loads(Braced(text_arg.tokens))
  /\ stages' = Append(stages, "recovery")
  /\ parsed' = "object"
  /\ parse_pc' = "done"
  /\ UNCHANGED << text_arg, cleaned_text >>
  /\ UNCHANGED others_than_parsing

\* lines 191-200: no braces, or json.loads raises and line 197 catches it
RecoveryFails ==
  /\ parse_pc = "recovery"
  /\ ~Loads(Braced(text_arg.tokens))
  /\ stages' = Append(stages, "recovery")
  /\ parsed' = "None"
  /\ parse_pc' = "done"
  /\ UNCHANGED << text_arg, cleaned_text >>
  /\ UNCHANGED others_than_parsing

NextParse ==
  \/ CleanText
  \/ StrictSucceeds
  \/ StrictFails
  \/ StrictRaises
  \/ RecoverySucceeds
  \/ RecoveryFails

SpecParse == InitParse /\ [][NextParse]_vars

\* ================================================ the matching loop
\* app.py, lines 586-650.  A resume of the batch is given with what will
\* happen to it: whether extract_text_from_file finds text, how the call of
\* parse_resume ends, how the call of generate_ai_reasoning ends, whether
\* its data makes evaluate_candidate_with_reasoning raise (the
\* AttributeError of InsightsError), and the overall score it gets.
MaxResumes == 3
\* the ends of generate_content: a response, or one of its terminal errors
TerminalErrors == {"RateLimit", "Timeout", "Fatal"}
Fate(t, p, r, f, s) ==
  [has_text |-> t, parse |-> p, rationale |-> r, faulty |-> f, score |-> s]
Fates ==
  {Fate(TRUE, "ok", "ok", FALSE, s) : s \in {70, 90}}
    \cup {Fate(FALSE, "ok", "ok", FALSE, 80)}
    \cup {Fate(TRUE, e, "ok", FALSE, 80) : e \in TerminalErrors}
    \cup {Fate(TRUE, "Malformed", "ok", FALSE, 80)}
    \cup {Fate(TRUE, "ok", e, FALSE, 80) : e \in TerminalErrors}
    \cup {Fate(TRUE, "ok", "ok", TRUE, 80)}

\* resume_parser.py, lines 104-117: parse_resume returns the dict, or None
\* when generate_content raised or the text could not be parsed
ParseReturnsData(fate) == fate.parse = "ok"

\* lines 607-622: the dict of the resume at position i
\* (evaluator.py, lines 135-162: the rationale is the fallback one when
\* generate_content raised)
BatchResult(i, fate) ==
  ("resume_id" :> i)
    @@ ("ai_reasoning" :> IF fate.rationale = "ok" THEN "response"
                                                   ELSE "fallback")
    @@ ResultDict(fate.score, [skills |-> fate.score])

others_than_batching ==
  << client, tiering, normalizing, rubric, evaluating, parsing >>

\* line 586: Start Matching is pressed with some resumes
InitBatch ==
  /\ ClientIdle
  /\ TierIdle
  /\ RankIdle
  /\ NormalizeIdle
  /\ RubricIdle
  /\ EvaluateIdle
  /\ ParseIdle
  /\ \E n \in 0..MaxResumes : resume_file_paths \in [1..n -> Fates]
  /\ batch_pc = "extract"
  /\ idx = 0
  /\ results = << >>
  /\ ranked_results = << >>
  /\ visited = {}

\* the resume of this turn of the loop
Current == resume_file_paths[idx + 1]

\* lines 588-594, with text
ExtractText ==
  /\ batch_pc = "extract"
  /\ idx < Len(resume_file_paths)
  /\ Current.has_text
  /\ visited' = visited \cup {idx + 1}
  /\ batch_pc' = "parse"
  /\ UNCHANGED << resume_file_paths, idx, results, ranked_results >>
  /\ UNCHANGED ranking
  /\ UNCHANGED others_than_batching

\* lines 588-594 and 626, without text: the next turn
ExtractNothing ==
  /\ batch_pc = "extract"
  /\ idx < Len(resume_file_paths)
  /\ ~Current.has_text
  /\ visited' = visited \cup {idx + 1}
  /\ idx' = idx + 1
  /\ UNCHANGED << batch_pc, resume_file_paths, results, ranked_results >>
  /\ UNCHANGED ranking
  /\ UNCHANGED others_than_batching

\* lines 596-602: parse_resume returns the data
ParseSucceeds ==
  /\ batch_pc = "parse"
  /\ ParseReturnsData(Current)
  /\ batch_pc' = "evaluate"
  /\ UNCHANGED << resume_file_paths, idx, results, ranked_results, visited >>
  /\ UNCHANGED ranking
  /\ UNCHANGED others_than_batching

\* parse_resume without its except clause: the error of generate_content
\* reaches line 649
ParseFailsAborting ==
  /\ batch_pc = "parse"
  /\ ~ParseReturnsData(Current)
  /\ batch_pc' = "aborted"
  /\ UNCHANGED << resume_file_paths, idx, results, ranked_results, visited >>
  /\ UNCHANGED ranking
  /\ UNCHANGED others_than_batching

\* lines 596-598 and 626: parse_resume returns None, the next turn
ParseFails ==
  /\ batch_pc = "parse"
  /\ ~ParseReturnsData(Current)
  /\ idx' = idx + 1
  /\ batch_pc' = "extract"
  /\ UNCHANGED << resume_file_paths, results, ranked_results, visited >>
  /\ UNCHANGED ranking
  /\ UNCHANGED others_than_batching

\* lines 604-626: the evaluation returns, with the rationale of the service
\* or with the fallback one, and its result is appended
EvaluateReturns ==
  /\ batch_pc = "evaluate"
  /\ ~Current.faulty
  /\ results' = Append(results, BatchResult(idx + 1, Current))
  /\ idx' = idx + 1
  /\ batch_pc' = "extract"
  /\ UNCHANGED << resume_file_paths, ranked_results, visited >>
  /\ UNCHANGED ranking
  /\ UNCHANGED others_than_batching

\* line 605 raises and line 649 catches: the loop and its results are left
EvaluateRaises ==
  /\ batch_pc = "evaluate"
  /\ Current.faulty
  /\ batch_pc' = "aborted"
  /\ UNCHANGED << resume_file_paths, idx, results, ranked_results, visited >>
  /\ UNCHANGED ranking
  /\ UNCHANGED others_than_batching

\* lines 631-636: rank_candidates is called with the results
CallRankCandidates ==
  /\ batch_pc = "extract"
  /\ idx = Len(resume_file_paths)
  /\ results # << >>
  /\ result_objects' = results
  /\ given_results' = results
  /\ evaluation_results' = [i \in 1..Len(results) |-> i]
  /\ rank_pc' = "called"
  /\ batch_pc' = "ranking"
  /\ UNCHANGED << sorted_results, rank >>
  /\ UNCHANGED << resume_file_paths, idx, results, ranked_results, visited >>
  /\ UNCHANGED others_than_batching

\* lines 636-645: rank_candidates has returned the ranked list
SaveRanked ==
  /\ batch_pc = "ranking"
  /\ rank_pc = "returned"
  /\ ranked_results' =
       [i \in 1..Len(sorted_results) |-> result_objects[sorted_results[i]]]
  /\ batch_pc' = "done"
  /\ UNCHANGED << resume_file_paths, idx, results, visited >>
  /\ UNCHANGED ranking
  /\ UNCHANGED others_than_batching

\* lines 631 and 646-647: no result
NoResults ==
  /\ batch_pc = "extract"
  /\ idx = Len(resume_file_paths)
  /\ results = << >>
  /\ batch_pc' = "done"
  /\ UNCHANGED << resume_file_paths, idx, results, ranked_results, visited >>
  /\ UNCHANGED ranking
  /\ UNCHANGED others_than_batching

NextBatch ==
  \/ ExtractText
  \/ ExtractNothing
  \/ ParseSucceeds
  \/ ParseFails
  \/ EvaluateReturns
  \/ EvaluateRaises
  \/ CallRankCandidates
  \/ SortResults
  \/ AssignRank
  \/ ReturnSorted
  \/ SaveRanked
  \/ NoResults

SpecBatch == InitBatch /\ [][NextBatch]_vars

\* ================================================================ claims
Gap(i) == grants[i].at - grants[i - 1].at

\* the grants up to grant i whose time lies in the interval (t - 60, t],
\* t the time of grant i, with no reset_rate_limiter between them and grant i
GrantsInWindowBefore(i) ==
  {k \in 1..i :
     /\ grants[k].at > grants[i].at - WINDOW_SECONDS
     /\ \A m \in (k + 1)..i : ~grants[m].reset}

\* an error text that is neither a rate-limit nor a timeout error
IsFatalText(text) ==
  /\ text # OK
  /\ text \cap {"rate", "limit", "429", "quota", "timeout"} = {}

\* C1: the calls-issued-in-window counter never exceeds the configured
\* per-minute limit, and an acquire that finds the counter at the limit
\* grants only once the window has rolled over.
C1_CounterWithinLimit ==
  /\ _api_call_count <= callsPerMinuteLimit
  /\ \A w \in workers :
       pc[w] = "store_count" /\ loaded[w] >= callsPerMinuteLimit
         => _last_api_call_time - _minute_start_time >= WINDOW_SECONDS

\* C2: at every time t, at most callsPerMinuteLimit grants have their grant
\* time in (t - 60, t].  The number of grants in such an interval is largest
\* for some t that is a grant time, so those t are the ones checked; and a
\* reset_rate_limiter is taken to start the count afresh, so the statement
\* is the claim's for the runs of grants that no manual reset interrupts.
C2_RollingWindow ==
  \A i \in DOMAIN grants :
    Cardinality(GrantsInWindowBefore(i)) <= callsPerMinuteLimit

\* C3, as claimed: every two consecutive grants are at least
\* minDelayBetweenCalls seconds apart, whatever happens between them.
C3_MinDelayAlways ==
  \A i \in 2..Len(grants) : Gap(i) >= minDelayBetweenCalls

\* C3, amended: with one worker, two consecutive grants are at least
\* minDelayBetweenCalls seconds apart unless reset_rate_limiter ran between
\* them; a window reset (by a rate-limited retry, a cooldown or the end of
\* the minute) between them changes nothing.
C3_MinDelayUnlessManualReset ==
  \A i \in 2..Len(grants) :
    ~grants[i].reset => Gap(i) >= minDelayBetweenCalls

\* C3: a second grant that had to wait out the minimum delay
C3_Witness ==
  \E i \in 2..Len(grants) :
    ~grants[i].reset /\ Gap(i) = minDelayBetweenCalls

\* C4: every external call of an invoke, the first and every retry, has an
\* acquire of its own before it: an invoke never has made more external
\* calls than acquires.
C4_AcquirePerAttempt ==
  \A w \in workers : ncalls[w] <= nacq[w]

\* C5: an invoke makes at most max_retries external calls, and none after
\* its first successful one.
C5_AttemptsBounded ==
  \A w \in workers :
    /\ ncalls[w] <= max_retries[w]
    /\ okcalls[w] > 0 => ncalls[w] = okcalls[w]

\* C5: an invoke that succeeded at its last allowed attempt
C5_Witness ==
  /\ pc[1] = "done"
  /\ max_retries[1] = MAX_RETRIES
  /\ okcalls[1] = MAX_RETRIES

\* C6: after attempt k < max_retries failed with a rate-limit error the
\* orchestrator sleeps INITIAL_RETRY_DELAY * 2^(k-1) + j seconds with
\* 2 <= j <= 8 and makes no call meanwhile; when attempt k+1 is reached the
\* sleep is over and the window has been reset (counter 0, window start at
\* the time the sleep returned).  k is attempt + 1.
C6_RateLimitBackoff ==
  \A w \in workers :
    /\ pc[w] = "backoff" =>
         /\ attempt[w] + 1 < max_retries[w]
         /\ wait_time[w] - INITIAL_RETRY_DELAY * Pow(2, attempt[w])
              \in JITTER_LOW..JITTER_HIGH
         /\ wake[w] = sleptAt[w] + wait_time[w]
         /\ ncalls[w] = attempt[w] + 1
    /\ pc[w] \in {"loop", "call"} /\ attempt[w] > 0 /\ IsRateLimitError(err[w]) =>
         /\ ncalls[w] = attempt[w]
         /\ _api_call_count = 0
         /\ _minute_start_time <= now
         /\ _minute_start_time >=
              sleptAt[w] + INITIAL_RETRY_DELAY * Pow(2, attempt[w] - 1) + JITTER_LOW

\* C6: the fourth attempt is about to be made, after the third was rate-limited
C6_Witness ==
  /\ pc[1] = "call"
  /\ attempt[1] = MAX_RETRIES - 1
  /\ IsRateLimitError(err[1])

\* C7: when the attempt numbered max_retries fails with a rate-limit error
\* the invoke ends at once, with no sleep and no further call, in a
\* rate-limit-exceeded error that carries the number of attempts made,
\* which is max_retries.
C7_RateLimitExhausted ==
  \A w \in workers :
    result[w].kind = "RateLimitExceeded" =>
      /\ pc[w] = "done"
      /\ IsRateLimitError(err[w])
      /\ result[w].attempts = max_retries[w]
      /\ ncalls[w] = result[w].attempts
      /\ attempt[w] = max_retries[w] - 1
      /\ wait_time[w] = 0

\* C7: the default four attempts, all made, the last one rate-limited
C7_Witness ==
  /\ result[1].kind = "RateLimitExceeded"
  /\ max_retries[1] = MAX_RETRIES

\* C8: after attempt k < max_retries failed with a timeout the orchestrator
\* sleeps TIMEOUT_BASE_DELAY * k seconds, makes no call meanwhile and
\* leaves the counter and the window start as they are; after attempt
\* k = max_retries it ends in a timeout error with no further call.
C8_TimeoutStates ==
  \A w \in workers :
    /\ pc[w] = "timeout_sleep" =>
         /\ attempt[w] + 1 < max_retries[w]
         /\ wait_time[w] = TIMEOUT_BASE_DELAY * (attempt[w] + 1)
         /\ wake[w] = sleptAt[w] + wait_time[w]
         /\ ncalls[w] = attempt[w] + 1
    /\ result[w].kind = "Timeout" =>
         /\ pc[w] = "done"
         /\ IsTimeoutError(err[w])
         /\ result[w].attempts = max_retries[w]
         /\ ncalls[w] = max_retries[w]
         /\ attempt[w] = max_retries[w] - 1
         /\ wait_time[w] = 0

C8_TrackerKept ==
  \A w \in workers :
    pc[w] = "timeout_sleep" \/ pc'[w] = "timeout_sleep"
      => UNCHANGED << _api_call_count, _minute_start_time >>

C8_TimeoutRetry == []C8_TimeoutStates /\ [][C8_TrackerKept]_vars

\* C8: the third attempt timed out and the third (longest) sleep runs
C8_Witness ==
  /\ pc[1] = "timeout_sleep"
  /\ attempt[1] = MAX_RETRIES - 2
  /\ max_retries[1] = MAX_RETRIES

\* C9: an error that is neither rate-limit nor timeout ends the invoke at
\* once, whatever the attempt number: no sleep, no further call, and the
\* error raised carries the text of the original one.
C9_FatalNotRetried ==
  \A w \in workers :
    IsFatalText(err[w]) /\ pc[w] # "returned" =>
      /\ pc[w] = "done"
      /\ result[w] = [kind |-> "ApiError", attempts |-> ncalls[w],
                      text |-> err[w]]
      /\ ncalls[w] = attempt[w] + 1
      /\ wait_time[w] = 0

\* C9: a fatal error at the first of four attempts, and the invoke is over
C9_Witness ==
  /\ pc[1] = "done"
  /\ result[1].kind = "ApiError"
  /\ attempt[1] = 0
  /\ max_retries[1] = MAX_RETRIES

\* C10: with several workers on the one tracker no increment of the counter
\* is lost, the counter never exceeds the limit, and no two grants are less
\* than minDelayBetweenCalls apart.
C10_AtomicAcquire ==
  /\ (\A w \in workers : pc[w] # "store_count") => _api_call_count = counted
  /\ _api_call_count <= callsPerMinuteLimit
  /\ \A i \in 2..Len(grants) :
       ~grants[i].reset => Gap(i) >= minDelayBetweenCalls


\* ------------------------------------------------ determine_candidate_tier
Returned == tier_pc = "returned"
\* how many tiers the rationale step moved the tier up
Moved == TierRank(candidate_tier) - TierRank(guarded_tier)

\* C11: with a strong-positive phrase the returned tier is the tier after
\* the safeguard or the one right above it; with a strong-negative phrase it
\* is that tier or the one right below it.
C11_OneStepInDirection ==
  Returned =>
    /\ (Truthy(ai_reasoning) /\ IsPositive(ai_reasoning)) => Moved \in {0, 1}
    /\ (Truthy(ai_reasoning) /\ IsNegative(ai_reasoning)) => Moved \in {-1, 0}

\* C12: when the average of skills, tools and experience is below 50 the
\* returned tier is neither TOP nor BEST, whatever the rationale says.
C12_SafeguardNotOverridden ==
  (Returned /\ CriticalAvgBelow(scores, 50)) =>
    candidate_tier \notin {"TOP", "BEST"}

NoRationaleGiven == ai_reasoning = NoRationale

\* C13: with no rationale, a base tier of TOP or BEST with a critical
\* average below 50 gives MODERATE, a base tier of MODERATE with a critical
\* average below 30 gives LOW, and every other base tier is returned as it
\* is; an overall score of 85 with a critical average of 40 gives MODERATE.
C13_SafeguardMapping ==
  (Returned /\ NoRationaleGiven) =>
    /\ (CriticalAvgBelow(scores, 50) /\ base_tier \in {"TOP", "BEST"})
         => candidate_tier = "MODERATE"
    /\ (CriticalAvgBelow(scores, 30) /\ base_tier = "MODERATE")
         => candidate_tier = "LOW"
    /\ (~CriticalAvgBelow(scores, 50)
          \/ base_tier \in {"LOW", "VERY_LOW"}
          \/ (~CriticalAvgBelow(scores, 30) /\ base_tier = "MODERATE"))
         => candidate_tier = base_tier
    /\ (overall_score = 85 /\ CriticalSum(scores) = 40 * 3)
         => candidate_tier = "MODERATE"

\* an overall score of 85 with a critical average of 40 has been classified
C13_Witness ==
  /\ Returned
  /\ NoRationaleGiven
  /\ overall_score = 85
  /\ CriticalSum(scores) = 40 * 3
  /\ base_tier = "TOP"
  /\ candidate_tier = "MODERATE"

\* C14: the function returns for every input, what it returns is one of the
\* five labels, and with no rationale and a critical average of at least 50
\* the label is the one of the thresholds 80, 60, 40, 20.
C14_TotalAndBase ==
  /\ ~Returned => ENABLED NextTier
  /\ Returned => candidate_tier \in Tiers
  /\ (Returned /\ NoRationaleGiven /\ ~CriticalAvgBelow(scores, 50)) =>
       /\ overall_score >= 80 => candidate_tier = "TOP"
       /\ (overall_score >= 60 /\ overall_score < 80)
            => candidate_tier = "BEST"
       /\ (overall_score >= 40 /\ overall_score < 60)
            => candidate_tier = "MODERATE"
       /\ (overall_score >= 20 /\ overall_score < 40)
            => candidate_tier = "LOW"
       /\ overall_score < 20 => candidate_tier = "VERY_LOW"

\* a threshold value has been classified with no rationale and no weak
\* critical category
C14_Witness ==
  /\ Returned
  /\ NoRationaleGiven
  /\ ~CriticalAvgBelow(scores, 50)
  /\ overall_score = 80
  /\ candidate_tier = "TOP"

\* C15: for a score map with a critical average of at least 50 and a
\* rationale, no overall score below the one classified gets a higher tier.
C15_Monotonic ==
  (Returned /\ ~CriticalAvgBelow(scores, 50)) =>
    \A a \in OverallScores :
      a <= overall_score =>
        TierRank(determine_candidate_tier(a, scores, ai_reasoning))
          <= TierRank(candidate_tier)

\* a score at which a phrase of the rationale changes the tier, with a
\* lower score that gets a lower tier
C15_Witness ==
  /\ Returned
  /\ ~CriticalAvgBelow(scores, 50)
  /\ IsNegative(ai_reasoning)
  /\ overall_score = 50
  /\ candidate_tier = "MODERATE"
  /\ determine_candidate_tier(49, scores, ai_reasoning) = "LOW"

\* --------------------------------------------------------- rank_candidates
Ranked == rank_pc = "returned"
\* where a reference stands in the list that was passed
InputPosition(ref) ==
  CHOOSE i \in 1..Len(evaluation_results) : evaluation_results[i] = ref

\* C16: what rank_candidates returns is a permutation of its argument, in
\* non-increasing overall score, with results of equal score in the order
\* they had in the argument.
C16_StableDescending ==
  Ranked =>
    /\ Len(sorted_results) = Len(evaluation_results)
    /\ \A i \in 1..Len(evaluation_results) :
         \E j \in 1..Len(sorted_results) :
           sorted_results[j] = evaluation_results[i]
    /\ \A i, j \in 1..Len(sorted_results) :
         i < j =>
           /\ sorted_results[i] # sorted_results[j]
           /\ OverallOf(sorted_results[i]) >= OverallOf(sorted_results[j])
           /\ OverallOf(sorted_results[i]) = OverallOf(sorted_results[j])
                => InputPosition(sorted_results[i])
                     < InputPosition(sorted_results[j])

\* a list with a tie that stands before a better result has been ranked
C16_Witness ==
  /\ Ranked
  /\ Len(evaluation_results) = 3
  /\ OverallOf(1) = 70
  /\ OverallOf(2) = 70
  /\ OverallOf(3) = 90
  /\ sorted_results = << 3, 1, 2 >>

\* C17: the result at position i of what is returned has rank i, and the
\* overall score and the category scores of every result are what they
\* were when the function was called.
C17_PositionalRanks ==
  Ranked =>
    /\ \A i \in 1..Len(sorted_results) :
         /\ "rank" \in DOMAIN result_objects[sorted_results[i]]
         /\ result_objects[sorted_results[i]].rank = i
    /\ \A ref \in DOMAIN result_objects :
         /\ result_objects[ref].overall_score = given_results[ref].overall_score
         /\ result_objects[ref].individual_scores
              = given_results[ref].individual_scores

\* the scores 90, 90, 70 have been given the ranks 1, 2, 3
C17_Witness ==
  /\ Ranked
  /\ Len(evaluation_results) = 3
  /\ given_results[1].overall_score = 90
  /\ given_results[2].overall_score = 90
  /\ given_results[3].overall_score = 70
  /\ result_objects[1].rank = 1
  /\ result_objects[2].rank = 2
  /\ result_objects[3].rank = 3

\* ------------------------------------------------------- normalize_weights
NormalizedTwice == norm_pc = "renormalized"
\* the categories of a run whose weight is not their rounded share
Remaindered ==
  IF SumValues(weights) = 0 THEN {}
  ELSE {k \in DOMAIN weights : normalized[k] # Shares(weights)[k]}

SumsToFull ==
  NormalizedTwice =>
    /\ SumValues(normalized) = FULL_WEIGHT
    /\ renormalized = normalized

Evaluated == rubric_pc = "evaluated"
RequiredKeys == {WeightKeys[i] : i \in 1..Len(WeightKeys)}

\* C19: a rubric whose weights sum to zero is not replaced by the default
\* weights, and no overall score is computed with a weights map that lacks
\* one of the seven categories: both end in an error before any scoring.
C19_NoSilentDefault ==
  /\ origin # "zero_sum_default"
  /\ Evaluated => RequiredKeys \subseteq DOMAIN applied

\* C20: the weights the overall score is computed with sum to exactly 100.
C20_SumIsFullAtUse ==
  Evaluated => SumValues(applied) = FULL_WEIGHT

\* ------------------------------------------- the evaluation of a candidate
Scored(k) == k \in DOMAIN individual_scores
OverallComputed ==
  eval_pc \in {"reasoning", "tier", "insights", "return", "done", "raised"}
TierDetermined == eval_pc \in {"insights", "return", "done", "raised"}
InsightsExtracted == eval_pc \in {"return", "done"}
EvalReturned == eval_pc = "done"

\* C21: each score the scoring functions return lies in [0, 100], whatever
\* the education table and the minimum of projects of the rubric hold.
C21_ScoresInRange ==
  \A k \in DOMAIN individual_scores :
    individual_scores[k] >= 0 /\ individual_scores[k] <= FULL_SCORE

\* the score map and the weights map that claim C22 speaks of
ScoresInContract ==
  /\ DOMAIN individual_scores = RequiredKeys
  /\ C21_ScoresInRange
WeightsInContract ==
  /\ \A k \in DOMAIN WeightsOf(rubrics_config) : WeightsOf(rubrics_config)[k] >= 0
  /\ SumValues(WeightsOf(rubrics_config)) = FULL_WEIGHT

\* C22: with the seven scores in [0, 100] and non-negative weights of sum
\* 100, the overall score computed at line 46 lies in [0, 100].
C22_OverallInRange ==
  (OverallComputed /\ ScoresInContract /\ WeightsInContract)
    => /\ ~BelowPoints(eval_overall, OverallExcess, 0)
       /\ ~AbovePoints(eval_overall, OverallExcess, MAX_SCORE)

\* the same data with every field being the dict or the list expected
RepairedJd ==
  [jd_data EXCEPT !.required_skills.ok = TRUE, !.experience.ok = TRUE]
RepairedResume ==
  [resume_data EXCEPT !.skills.ok = TRUE, !.experience.ok = TRUE,
                      !.education.ok = TRUE, !.profile_quality.ok = TRUE]

\* C23: an error inside a scorer is caught there and gives 50 for that
\* category only: the evaluation never raises, and every other score is the
\* one the same data gives without the error.
C23_ErrorStaysInScorer ==
  /\ eval_pc # "raised"
  /\ \A k \in DOMAIN individual_scores :
       IF k \in caught
         THEN individual_scores[k] = NEUTRAL_SCORE
         ELSE individual_scores[k] =
                Scorer(k, RepairedJd, RepairedResume, rubrics_config)
  /\ EvalReturned => DOMAIN eval_result.individual_scores = RequiredKeys

\* the bands of claim C26, on the exact values in months
ExperienceBandsExact(r, c) ==
  IF extract_years(r) = 0
    THEN (IF extract_years(c) <= 12 THEN FULL_SCORE ELSE 80 * HUNDREDTHS)
  ELSE IF AtLeastShareExact(c, r, 10) THEN FULL_SCORE
  ELSE IF AtLeastShareExact(c, r, 8) THEN 85 * HUNDREDTHS
  ELSE IF AtLeastShareExact(c, r, 6) THEN 70 * HUNDREDTHS
  ELSE IF AtLeastShareExact(c, r, 4) THEN 50 * HUNDREDTHS
  ELSE 30 * HUNDREDTHS

\* C26: with R the required and C the candidate's years, months counting
\* as twelfths, the experience score is 100 or 80 for R = 0 (C <= 1 or not),
\* and else 100, 85, 70, 50 or 30 by the first of C >= R, 0.8 R, 0.6 R and
\* 0.4 R that holds.
C26_ExperienceBands ==
  (Scored("experience") /\ "experience" \notin caught)
    => individual_scores["experience"] =
         ExperienceBandsExact(jd_data.experience.required_years,
                              resume_data.experience.total_experience)

\* the entries generated for the two lists
StrengthsNow ==
  StrengthsGenerated(individual_scores, WeightsOf(rubrics_config),
                     jd_data, resume_data)
WeaknessesNow ==
  WeaknessesGenerated(individual_scores, WeightsOf(rubrics_config),
                      jd_data, resume_data)
CategoryKinds == {"strong", "gap"}
\* the list has 1 to 5 entries; it is the placeholder alone when nothing
\* was generated, and else the first entries generated, the ones of the
\* categories in the order of the scores and before the specific one
WellCut(list, generated, placeholder) ==
  /\ Len(list) >= 1
  /\ Len(list) <= MAX_INSIGHTS
  /\ generated = << >> => list = << placeholder >>
  /\ generated # << >> =>
       /\ Len(list) = IF Len(generated) < MAX_INSIGHTS
                        THEN Len(generated) ELSE MAX_INSIGHTS
       /\ \A i \in 1..Len(list) : list[i] = generated[i]
  /\ \A i, j \in 1..Len(list) :
       (i < j /\ list[j].kind \in CategoryKinds)
         => /\ list[i].kind \in CategoryKinds
            /\ KeyIndex(list[i].of) < KeyIndex(list[j].of)

\* C27: extract_strengths_weaknesses returns two lists of 1 to 5 entries
\* each: the placeholder alone for a list with no generated entry, and else
\* the first 5 entries in the order generated, category entries first.
C27_ListsOfOneToFive ==
  InsightsExtracted
    => /\ WellCut(strengths, StrengthsNow, StrengthPlaceholder)
       /\ WellCut(weaknesses, WeaknessesNow, WeaknessPlaceholder)

\* C27: eight strengths were generated, or eight weaknesses, and the list
\* returned holds the first five.
C27_Witness ==
  /\ EvalReturned
  /\ \/ Len(StrengthsNow) > MAX_INSIGHTS /\ Len(eval_result.strengths) = MAX_INSIGHTS
     \/ Len(WeaknessesNow) > MAX_INSIGHTS /\ Len(eval_result.weaknesses) = MAX_INSIGHTS

\* the tier of steps 1 and 2: the thresholds and the safeguard
TierOfScores ==
  Safeguard(BaseTier(WholePoints(eval_overall, OverallExcess)),
            CriticalPoints(individual_scores))

\* C28: when the fallback rationale is used, the tier is the one that the
\* thresholds and the safeguard give for the same scores.
C28_FallbackKeepsTier ==
  (TierDetermined /\ reasoning_source = "fallback") => eval_tier = TierOfScores

\* neither the safeguard nor the rationale has changed the tier
TierUnchanged ==
  eval_tier = BaseTier(WholePoints(eval_overall, OverallExcess))

\* C29: in a result whose tier was changed neither by the safeguard nor by
\* the rationale, the tier is the one the thresholds 80, 60, 40 and 20 give
\* for the stored overall score, the one rounded to 2 decimals.
C29_TierOfStoredScore ==
  (EvalReturned /\ TierUnchanged)
    => eval_result.candidate_tier =
         BaseTier(eval_result.overall_score \div HUNDREDTHS)

\* ------------------------------------------------- parse_json_response
ParseDone == parse_pc = "done"

\* C25: strict parsing of the cleaned text runs first and the recovery pass
\* only after it has failed; the caller gets the parse failure, which is the
\* value None and no exception, only when both stages have failed, whatever
\* the text, an absent or empty one included.
C25_StagesInOrder ==
  /\ stages \in { << >>, << "strict" >>, << "strict", "recovery" >> }
  /\ parsed \in {"unset", "object", "None"}
  /\ (ParseDone /\ parsed = "object" /\ stages = << "strict", "recovery" >>)
       => ~Loads(cleaned_text.tokens)
  /\ (ParseDone /\ parsed # "object")
       => stages = << "strict", "recovery" >>

\* ------------------------------------------------------ the matching loop
BatchOver == batch_pc \in {"done", "aborted"}
Positions == 1..Len(resume_file_paths)
\* the resumes whose own processing fails: no text, no parsed data, or an
\* evaluation that raises
FailsItself(i) ==
  \/ ~resume_file_paths[i].has_text
  \/ ~ParseReturnsData(resume_file_paths[i])
  \/ resume_file_paths[i].faulty
\* a terminal error of generate_content while the resume is processed
ExternalFailure(i) ==
  /\ resume_file_paths[i].has_text
  /\ \/ resume_file_paths[i].parse \in TerminalErrors
     \/ /\ resume_file_paths[i].parse = "ok"
        /\ resume_file_paths[i].rationale \in TerminalErrors
\* the evaluation of some resume raises
SomeFaulty ==
  \E i \in Positions :
    /\ resume_file_paths[i].has_text
    /\ ParseReturnsData(resume_file_paths[i])
    /\ resume_file_paths[i].faulty
RankedIds == {ranked_results[i].resume_id : i \in 1..Len(ranked_results)}

\* C24: a terminal failure of an external call for one resume does not end
\* the batch: unless the evaluation of a resume raises, the loop reaches
\* every resume and the ranked output holds exactly the resumes whose own
\* processing did not fail.
C24_BatchGoesOn ==
  /\ batch_pc = "aborted"
       => /\ resume_file_paths[idx + 1].faulty
          /\ ~ExternalFailure(idx + 1)
  /\ (BatchOver /\ ~SomeFaulty)
       => /\ visited = Positions
          /\ RankedIds = {i \in Positions : ~FailsItself(i)}
          /\ Len(ranked_results) = Cardinality(RankedIds)

\* C24: the first resume's external call failed terminally, and a later
\* resume is in the ranked output.
C24_Witness ==
  /\ batch_pc = "done"
  /\ Len(resume_file_paths) > 1
  /\ ExternalFailure(1)
  /\ \E j \in RankedIds : j > 1
  /\ \E i \in 1..Len(ranked_results) :
       ranked_results[i].ai_reasoning = "fallback"

\* ------------------------------------------- generate_content terminates
\* the class of an error text (section 4.2, step 4), as the terminal error
\* that stands for it
ErrorClass(text) ==
  IF text \cap RATE_KEYWORDS # {} THEN "RateLimitExceeded"
  ELSE IF "timeout" \in text THEN "Timeout"
  ELSE "ApiError"

Invoked(w) == pc[w] \notin {"idle", "done"}
Terminated(w) ==
  /\ pc[w] = "done"
  /\ \/ result[w].kind = "response" /\ err[w] = OK
     \/ err[w] # OK /\ result[w].kind = ErrorClass(err[w])

\* C30: with a clock that goes on, a call of generate_content with
\* max_retries >= 1 ends, whatever errors the external calls give and
\* whatever the tracker waits for: it returns a response, or raises the
\* terminal error of the class of the last attempt's failure.
C30_InvokeTerminates ==
  \A w \in Workers :
    (Invoked(w) /\ max_retries[w] >= 1) ~> Terminated(w)

\* C30: all four attempts failed, the first three with timeouts (the sleeps
\* of 10, 20 and 30 seconds and no more have passed since the grant), the
\* last with an error of the rate-limit class, and the call has ended.
C30_Witness ==
  /\ Terminated(1)
  /\ max_retries[1] = MAX_RETRIES
  /\ ncalls[1] = MAX_RETRIES
  /\ result[1].kind = "RateLimitExceeded"
  /\ now - grants[Len(grants)].at =
       TimeoutDelay(0) + TimeoutDelay(1) + TimeoutDelay(2)
====
